---- MODULE Spec2Model ----
(***************************************************************************)
(* Model of the elv structural editor and its live evaluator.              *)
(*                                                                         *)
(* A Rust String / Vec<char> is a sequence of one-character strings, an    *)
(* Option<T> is a sequence of length 0 (None) or 1 (Some), and enum        *)
(* values are records tagged by their variant.                             *)
(***************************************************************************)
EXTENDS Integers, Sequences, FiniteSets, TLC

VARIABLES program, cursor, vm, trace, status, build

vars == <<program, cursor, vm, trace, status, build>>

(***************************************************************************)
(* Bounds of the model.                                                    *)
(***************************************************************************)
\* longest program drawn from the general alphabet
MaxLen == 3
\* nested eval_cursor calls the call stack can hold before it is exhausted
MaxDepth == 4
\* number literals of the arithmetic programs range over -MaxNeg..MaxNum
MaxNeg == 2
MaxNum == 5
\* largest list length requested from iota in the map programs
MaxIota == 3
\* most expressions, finished or in progress, of a cursor of the editor
MaxExprs == 3
\* largest accumulator of a NumLit focus of the editor that takes one more
\* digit
MaxAcc == 9
\* most characters of a cursor, in its expressions and in its buffer
MaxTyped == 2
\* most times a set is combined with itself in a program
MaxChain == 5

\* an i64 of the program has IntBits bits in the model (64 in the source):
\* the width is scaled down so that the values next to its limits are reached
IntBits == 8

None == <<>>
Some(x) == <<x>>

I64Min == 0 - 2 ^ (IntBits - 1)
I64Max == 2 ^ (IntBits - 1) - 1

\* n is a value of an i64
fits_i64(n) == I64Min <= n /\ n <= I64Max

\* the i64 that wrapping arithmetic leaves for the integer n
wrap_i64(n) == ((n - I64Min) % (2 ^ IntBits)) + I64Min

Last(s) == s[Len(s)]
Front(s) == SubSeq(s, 1, Len(s) - 1)

(***************************************************************************)
(* syntax.rs / editor.rs: expressions                                      *)
(***************************************************************************)
ExprIdent(s) == [e |-> "Ident", s |-> s]
ExprStrLit(s) == [e |-> "StrLit", s |-> s]
ExprNumLit(n) == [e |-> "NumLit", n |-> n]
ExprQuote(body) == [e |-> "Quote", body |-> body]

(***************************************************************************)
(* editor.rs: the cursor (zipper) and its shape                            *)
(***************************************************************************)
Edge(head, tail) == [v |-> "Edge", head |-> head, tail |-> tail]
Quote(head, inner, tail) ==
    [v |-> "Quote", head |-> head, cursor |-> inner, tail |-> tail]
Ident(head, n, s, tail) ==
    [v |-> "Ident", head |-> head, n |-> n, s |-> s, tail |-> tail]
StrLit(head, n, s, tail) ==
    [v |-> "StrLit", head |-> head, n |-> n, s |-> s, tail |-> tail]
NumLit(head, n, tail) == [v |-> "NumLit", head |-> head, n |-> n, tail |-> tail]

ShapeEdge(h, t) == [v |-> "Edge", head |-> h, tail |-> t]
ShapeQuote(h, inner, t) ==
    [v |-> "Quote", head |-> h, cursor |-> inner, tail |-> t]
ShapeIdent(h, t) == [v |-> "Ident", head |-> h, tail |-> t]
ShapeStrLit(h, t) == [v |-> "StrLit", head |-> h, tail |-> t]
ShapeNumLit(h, t) == [v |-> "NumLit", head |-> h, tail |-> t]

empty == Edge(<<>>, <<>>)

initial(prog) == Edge(<<>>, prog)

\* the buffer of a literal in progress is counted with its tail
RECURSIVE shape_with_buffer(_)
shape_with_buffer(c) ==
    CASE c.v = "Edge" -> ShapeEdge(Len(c.head), Len(c.tail))
      [] c.v = "Quote" ->
            ShapeQuote(Len(c.head), shape_with_buffer(c.cursor), Len(c.tail))
      [] c.v = "Ident" -> ShapeIdent(Len(c.head), Len(c.tail) + Len(c.s))
      [] c.v = "StrLit" -> ShapeStrLit(Len(c.head), Len(c.tail) + Len(c.s))
      [] c.v = "NumLit" -> ShapeNumLit(Len(c.head), Len(c.tail) + Len(c.n))

RECURSIVE shape(_)
shape(c) ==
    CASE c.v = "Edge" -> ShapeEdge(Len(c.head), Len(c.tail))
      [] c.v = "Quote" -> ShapeQuote(Len(c.head), shape(c.cursor), Len(c.tail))
      [] c.v = "Ident" -> ShapeIdent(Len(c.head), Len(c.tail))
      [] c.v = "StrLit" -> ShapeStrLit(Len(c.head), Len(c.tail))
      [] c.v = "NumLit" -> ShapeNumLit(Len(c.head), Len(c.tail))

RECURSIVE next_expr(_)
next_expr(c) ==
    IF c.v = "Quote" THEN next_expr(c.cursor)
    ELSE IF c.tail = <<>> THEN None ELSE Some(Head(c.tail))

RECURSIVE move_very_left_noswap(_)
move_very_left_noswap(c) ==
    CASE c.v = "Edge" -> Edge(c.head \o c.tail, <<>>)
      [] c.v = "Quote" -> [c EXCEPT !.cursor = move_very_left_noswap(c.cursor)]
      [] c.v \in {"Ident", "StrLit"} -> [c EXCEPT !.n = 0]
      [] c.v = "NumLit" -> c

\* the expressions after the focus come before the ones that were before it
RECURSIVE move_very_left_tail_first(_)
move_very_left_tail_first(c) ==
    CASE c.v = "Edge" -> Edge(<<>>, c.tail \o c.head)
      [] c.v = "Quote" ->
            [c EXCEPT !.cursor = move_very_left_tail_first(c.cursor)]
      [] c.v \in {"Ident", "StrLit"} -> [c EXCEPT !.n = 0]
      [] c.v = "NumLit" -> c

RECURSIVE move_very_left(_)
move_very_left(c) ==
    CASE c.v = "Edge" -> Edge(<<>>, c.head \o c.tail)
      [] c.v = "Quote" -> [c EXCEPT !.cursor = move_very_left(c.cursor)]
      [] c.v \in {"Ident", "StrLit"} -> [c EXCEPT !.n = 0]
      [] c.v = "NumLit" -> c

\* the caret moves right without a test against the buffer's length
RECURSIVE move_right_unclamped(_)
move_right_unclamped(c) ==
    CASE c.v = "Edge" ->
            IF c.tail # <<>>
            THEN Edge(Append(c.head, Head(c.tail)), Tail(c.tail))
            ELSE c
      [] c.v = "Quote" -> [c EXCEPT !.cursor = move_right_unclamped(c.cursor)]
      [] c.v \in {"Ident", "StrLit"} -> [c EXCEPT !.n = c.n + 1]
      [] c.v = "NumLit" -> c

RECURSIVE move_right(_)
move_right(c) ==
    CASE c.v = "Edge" ->
            IF c.tail # <<>>
            THEN Edge(Append(c.head, Head(c.tail)), Tail(c.tail))
            ELSE c
      [] c.v = "Quote" -> [c EXCEPT !.cursor = move_right(c.cursor)]
      [] c.v \in {"Ident", "StrLit"} ->
            IF c.n < Len(c.s) THEN [c EXCEPT !.n = c.n + 1] ELSE c
      [] c.v = "NumLit" -> c

\* the focus enters the quote at its start
RECURSIVE move_up_to_start(_)
move_up_to_start(c) ==
    CASE c.v = "Edge" ->
            IF c.head # <<>> /\ Last(c.head).e = "Quote"
            THEN Quote(Front(c.head), Edge(<<>>, Last(c.head).body), c.tail)
            ELSE c
      [] c.v = "Quote" -> [c EXCEPT !.cursor = move_up_to_start(c.cursor)]
      [] OTHER -> c

RECURSIVE move_up(_)
move_up(c) ==
    CASE c.v = "Edge" ->
            IF c.head # <<>> /\ Last(c.head).e = "Quote"
            THEN Quote(Front(c.head), Edge(Last(c.head).body, <<>>), c.tail)
            ELSE c
      [] c.v = "Quote" -> [c EXCEPT !.cursor = move_up(c.cursor)]
      [] OTHER -> c

empty_ident == Ident(<<>>, 0, <<>>, <<>>)

empty_str_lit == StrLit(<<>>, 0, <<>>, <<>>)

empty_num_lit == NumLit(<<>>, None, <<>>)

empty_quote == Quote(<<>>, empty, <<>>)

RECURSIVE mode(_)
mode(c) ==
    CASE c.v = "Edge" -> "Normal"
      [] c.v = "Quote" -> mode(c.cursor)
      [] c.v = "Ident" -> "Ident"
      [] c.v = "StrLit" -> "StrLit"
      [] c.v = "NumLit" -> "NumLit"

\* Cursor::program, defined where it does not panic (mode(c) = "Normal")
RECURSIVE cursor_program(_)
cursor_program(c) ==
    CASE c.v = "Edge" -> c.head \o c.tail
      [] c.v = "Quote" ->
            Append(c.head, ExprQuote(cursor_program(c.cursor))) \o c.tail

\* a literal with an empty buffer is dropped
RECURSIVE escape_drop_empty(_)
escape_drop_empty(c) ==
    CASE c.v = "Edge" -> Edge(c.head, c.tail)
      [] c.v = "Quote" -> Quote(c.head, escape_drop_empty(c.cursor), c.tail)
      [] c.v = "Ident" ->
            IF c.s = <<>> THEN Edge(c.head, c.tail)
            ELSE Edge(Append(c.head, ExprIdent(c.s)), c.tail)
      [] c.v = "StrLit" ->
            IF c.s = <<>> THEN Edge(c.head, c.tail)
            ELSE Edge(Append(c.head, ExprStrLit(c.s)), c.tail)
      [] c.v = "NumLit" ->
            IF c.n # None
            THEN Edge(Append(c.head, ExprNumLit(c.n[1])), c.tail)
            ELSE Edge(c.head, c.tail)

RECURSIVE escape_to_normal(_)
escape_to_normal(c) ==
    CASE c.v = "Edge" -> Edge(c.head, c.tail)
      [] c.v = "Quote" -> Quote(c.head, escape_to_normal(c.cursor), c.tail)
      [] c.v = "Ident" -> Edge(Append(c.head, ExprIdent(c.s)), c.tail)
      [] c.v = "StrLit" -> Edge(Append(c.head, ExprStrLit(c.s)), c.tail)
      [] c.v = "NumLit" ->
            IF c.n # None
            THEN Edge(Append(c.head, ExprNumLit(c.n[1])), c.tail)
            ELSE Edge(c.head, c.tail)

\* the expression passed is put at the end of tail
RECURSIVE move_left_append(_)
move_left_append(c) ==
    CASE c.v = "Edge" ->
            IF c.head # <<>>
            THEN Edge(Front(c.head), Append(c.tail, Last(c.head)))
            ELSE c
      [] c.v = "Quote" -> [c EXCEPT !.cursor = move_left_append(c.cursor)]
      [] c.v \in {"Ident", "StrLit"} ->
            IF c.n > 0 THEN [c EXCEPT !.n = c.n - 1] ELSE c
      [] c.v = "NumLit" -> c

RECURSIVE move_left(_)
move_left(c) ==
    CASE c.v = "Edge" ->
            IF c.head # <<>>
            THEN Edge(Front(c.head), <<Last(c.head)>> \o c.tail)
            ELSE c
      [] c.v = "Quote" -> [c EXCEPT !.cursor = move_left(c.cursor)]
      [] c.v \in {"Ident", "StrLit"} ->
            IF c.n > 0 THEN [c EXCEPT !.n = c.n - 1] ELSE c
      [] c.v = "NumLit" -> c

\* the outermost Quote level is collapsed, whatever is inside it
move_out_outermost(c) ==
    IF c.v = "Quote"
    THEN Edge(Append(c.head, ExprQuote(cursor_program(c.cursor))), c.tail)
    ELSE c

\* defined where it does not panic: the focus that is left is in Normal mode
RECURSIVE move_out(_)
move_out(c) ==
    IF c.v = "Quote"
    THEN IF c.cursor.v = "Quote"
         THEN Quote(c.head, move_out(c.cursor), c.tail)
         ELSE Edge(Append(c.head, ExprQuote(cursor_program(c.cursor))), c.tail)
    ELSE c

\* the head of the fragment is put before the head of the cursor
RECURSIVE insert_before(_, _)
insert_before(c, subst) ==
    IF c.v = "Quote" THEN Quote(c.head, insert_before(c.cursor, subst), c.tail)
    ELSE [subst EXCEPT !.head = subst.head \o c.head,
                       !.tail = subst.tail \o c.tail]

\* defined where it does not panic: the innermost focus of c is an Edge
RECURSIVE insert(_, _)
insert(c, subst) ==
    CASE c.v = "Edge" /\ subst.v = "Edge" ->
            Edge(c.head \o subst.head, subst.tail \o c.tail)
      [] c.v = "Edge" /\ subst.v = "Quote" ->
            Quote(c.head \o subst.head, subst.cursor, subst.tail \o c.tail)
      [] c.v = "Edge" /\ subst.v = "Ident" ->
            Ident(c.head \o subst.head, subst.n, subst.s, subst.tail \o c.tail)
      [] c.v = "Edge" /\ subst.v = "StrLit" ->
            StrLit(c.head \o subst.head, subst.n, subst.s, subst.tail \o c.tail)
      [] c.v = "Edge" /\ subst.v = "NumLit" ->
            NumLit(c.head \o subst.head, subst.n, subst.tail \o c.tail)
      [] c.v = "Quote" -> Quote(c.head, insert(c.cursor, subst), c.tail)

\* the first expression of head is dropped
RECURSIVE delete_first(_)
delete_first(c) ==
    CASE c.v = "Edge" ->
            IF c.head # <<>> THEN Edge(Tail(c.head), c.tail) ELSE c
      [] c.v = "Quote" -> [c EXCEPT !.cursor = delete_first(c.cursor)]

\* defined where it does not panic: the innermost focus of c is an Edge
RECURSIVE delete_before(_)
delete_before(c) ==
    CASE c.v = "Edge" ->
            IF c.head # <<>> THEN Edge(Front(c.head), c.tail) ELSE c
      [] c.v = "Quote" -> [c EXCEPT !.cursor = delete_before(c.cursor)]

DigitChars == <<"0", "1", "2", "3", "4", "5", "6", "7", "8", "9">>

\* char::to_digit(10)
to_digit(ch) ==
    IF \E i \in 1..10 : DigitChars[i] = ch
    THEN Some((CHOOSE i \in 1..10 : DigitChars[i] = ch) - 1)
    ELSE None

unwrap_or(o, x) == IF o = None THEN x ELSE o[1]

\* the character is put at the end of the buffer
vec_insert_end(s, n, ch) == Append(s, ch)

\* Vec::insert(n, ch)
vec_insert(s, n, ch) == SubSeq(s, 1, n) \o <<ch>> \o SubSeq(s, n + 1, Len(s))

\* 10 * n.unwrap_or(0) + digit leaves the range of i64: a panic in a build
\* with overflow checks, a wrapped value without them
RECURSIVE input_overflows(_, _)
input_overflows(c, ch) ==
    CASE c.v = "Quote" -> input_overflows(c.cursor, ch)
      [] c.v = "NumLit" ->
            /\ to_digit(ch) # None
            /\ \/ ~fits_i64(10 * unwrap_or(c.n, 0))
               \/ ~fits_i64(10 * unwrap_or(c.n, 0) + to_digit(ch)[1])
      [] OTHER -> FALSE

\* defined where it does not panic: the innermost focus of c is no Edge
RECURSIVE input(_, _)
input(c, ch) ==
    CASE c.v = "Quote" -> [c EXCEPT !.cursor = input(c.cursor, ch)]
      [] c.v = "Ident" -> Ident(c.head, c.n + 1, vec_insert(c.s, c.n, ch), c.tail)
      [] c.v = "StrLit" ->
            StrLit(c.head, c.n + 1, vec_insert(c.s, c.n, ch), c.tail)
      [] c.v = "NumLit" ->
            IF to_digit(ch) # None
            THEN NumLit(c.head,
                        Some(wrap_i64(10 * unwrap_or(c.n, 0) + to_digit(ch)[1])),
                        c.tail)
            ELSE c

(***************************************************************************)
(* value.rs: runtime values                                                *)
(***************************************************************************)
new_poison == [k |-> "Poison"]
new_char(c) == [k |-> "Char", c |-> c]
new_i64(n) == [k |-> "Num", n |-> n]
\* a BigInt outside the i64 range is boxed as Ptr(Val::Num); as_num reads both
\* forms back as the same integer, so a number is modelled by its value
new_num(n) == [k |-> "Num", n |-> n]
new_list(xs) == [k |-> "List", items |-> xs]
new_quote(c) == [k |-> "Quote", cursor |-> c]
new_str(s) == new_list([i \in 1..Len(s) |-> new_char(s[i])])
new_bool(b) == new_i64(IF b THEN 1 ELSE 0)

as_char(x) == IF x.k = "Char" THEN Some(x.c) ELSE None
as_num(x) == IF x.k = "Num" THEN Some(x.n) ELSE None
as_list(x) == IF x.k = "List" THEN Some(x.items) ELSE None
as_quote(x) == IF x.k = "Quote" THEN Some(x.cursor) ELSE None
as_bool(x) ==
    IF x.k = "Num" /\ x.n \in {0, 1} THEN Some(x.n = 1) ELSE None
as_string(x) ==
    IF x.k = "List" /\ \A i \in 1..Len(x.items) : x.items[i].k = "Char"
    THEN Some([i \in 1..Len(x.items) |-> x.items[i].c])
    ELSE None

(***************************************************************************)
(* polyset.rs: a Polyset is the vector elems of (item, multiplicity)       *)
(* pairs.  An operation that adds or multiplies multiplicities yields the  *)
(* set it leaves with wrapping arithmetic and whether an i64 overflowed.   *)
(***************************************************************************)
\* the code point of a character of the model's alphabet
char_code(ch) ==
    IF to_digit(ch) # None THEN 48 + to_digit(ch)[1]
    ELSE CASE ch = " " -> 32
           [] ch = "," -> 44
           [] ch = "a" -> 97
           [] ch = "b" -> 98
           [] ch = "c" -> 99
           [] ch = "z" -> 122

\* the position of the variant of x in enum Value
variant_index(x) ==
    CASE x.k = "Poison" -> 0
      [] x.k = "Char" -> 1
      [] x.k = "Num" -> 2
      [] OTHER -> 3

\* derive(Ord) of Value, for the items the sets of the model hold (Poison,
\* Char and Num): by variant, then by payload
value_lt(x, y) ==
    \/ variant_index(x) < variant_index(y)
    \/ /\ x.k = "Char" /\ y.k = "Char"
       /\ char_code(x.c) < char_code(y.c)
    \/ /\ x.k = "Num" /\ y.k = "Num"
       /\ x.n < y.n

\* Ord of (T, i64)
pair_le(p, q) == value_lt(p[1], q[1]) \/ (p[1] = q[1] /\ p[2] <= q[2])

\* the sorted vector data with the pair p put in its place
RECURSIVE sorted_insert(_, _)
sorted_insert(data, p) ==
    IF data = <<>> THEN <<p>>
    ELSE IF pair_le(p, Head(data)) THEN <<p>> \o data
    ELSE <<Head(data)>> \o sorted_insert(Tail(data), p)

\* data.sort()
RECURSIVE sort(_)
sort(data) ==
    IF data = <<>> THEN <<>> ELSE sorted_insert(sort(Tail(data)), Head(data))

Polyset(elems) == [elems |-> elems]

polyset_new == Polyset(<<>>)

Built(elems, overflow) == [set |-> Polyset(elems), overflow |-> overflow]

keys(set) == [i \in 1..Len(set.elems) |-> set.elems[i][1]]

\* the multiplicity is not started again at a new pivot
RECURSIVE from_iter_loop_carry(_, _, _, _, _)
from_iter_loop_carry(data, pivot, multiplicity, elems, overflow) ==
    IF data = <<>> THEN Built(Append(elems, <<pivot, multiplicity>>), overflow)
    ELSE IF Head(data)[1] = pivot
    THEN from_iter_loop_carry(Tail(data), pivot,
                              wrap_i64(multiplicity + Head(data)[2]), elems,
                              overflow \/ ~fits_i64(multiplicity + Head(data)[2]))
    ELSE from_iter_loop_carry(Tail(data), Head(data)[1],
                              wrap_i64(multiplicity + Head(data)[2]),
                              Append(elems, <<pivot, multiplicity>>), overflow)

\* the for loop of from_iter over the sorted pairs that remain
RECURSIVE from_iter_loop(_, _, _, _, _)
from_iter_loop(data, pivot, multiplicity, elems, overflow) ==
    IF data = <<>> THEN Built(Append(elems, <<pivot, multiplicity>>), overflow)
    ELSE IF Head(data)[1] = pivot
    THEN from_iter_loop(Tail(data), pivot,
                        wrap_i64(multiplicity + Head(data)[2]), elems,
                        overflow \/ ~fits_i64(multiplicity + Head(data)[2]))
    ELSE from_iter_loop(Tail(data), Head(data)[1], Head(data)[2],
                        Append(elems, <<pivot, multiplicity>>), overflow)

\* the pairs after the first one, given the sorted vector
from_sorted(data) ==
    IF data = <<>> THEN Built(<<>>, FALSE)
    ELSE from_iter_loop(Tail(data), Head(data)[1], Head(data)[2], <<>>, FALSE)

\* FromIterator<(T, i64)>
from_iter(data) == from_sorted(sort(data))

\* FromIterator<T> and from_vec: every item with multiplicity 1
from_vec(data) == from_iter([i \in 1..Len(data) |-> <<data[i], 1>>])

polyset_union(self, that) == from_iter(self.elems \o that.elems)

\* the loop of join; a and b hold the pairs (x, m) and (y, n) in hand first
RECURSIVE join_loop(_, _, _, _)
join_loop(a, b, elems, overflow) ==
    IF a = <<>> \/ b = <<>> THEN Built(elems, overflow)
    ELSE IF Head(a)[1] = Head(b)[1]
    THEN join_loop(Tail(a), Tail(b),
                   Append(elems, <<Head(a)[1], wrap_i64(Head(a)[2] * Head(b)[2])>>),
                   overflow \/ ~fits_i64(Head(a)[2] * Head(b)[2]))
    ELSE IF value_lt(Head(a)[1], Head(b)[1])
    THEN join_loop(Tail(a), b, elems, overflow)
    ELSE join_loop(a, Tail(b), elems, overflow)

polyset_join(self, that) == join_loop(self.elems, that.elems, <<>>, FALSE)

new_set(val) == [k |-> "Set", set |-> val]

\* Val::as_set: a list is collected item by item (a list is too short for
\* the sum of its ones to overflow), a set is cloned
as_set(x) ==
    CASE x.k = "List" -> Some(from_vec(x.items).set)
      [] x.k = "Set" -> Some(x.set)
      [] OTHER -> None

(***************************************************************************)
(* eval.rs: the VM                                                         *)
(***************************************************************************)
vm_new == [parent |-> None, stack |-> <<>>]

\* the child starts with the values of its parent
new_child_shared(self) == [parent |-> Some(self), stack |-> self.stack]

new_child(self) == [parent |-> Some(self), stack |-> <<>>]

push(self, value) == [self EXCEPT !.stack = Append(@, value)]

add_snapshot(self, tr, key) ==
    IF key \in DOMAIN tr
    THEN [tr EXCEPT ![key] = Append(@, self)]
    ELSE tr @@ (key :> <<self>>)

(***************************************************************************)
(* The body of one arm of eval_prim's try block maps the stack to an       *)
(* outcome: Some (the arm completed), None (a `?` left the block: the      *)
(* stack keeps whatever the arm had done to it so far) or Panic (the       *)
(* thread panics: evaluation is aborted).                                  *)
(***************************************************************************)
RSome(st) == [res |-> "Some", stack |-> st]
RNone(st) == [res |-> "None", stack |-> st]
RPanic(st) == [res |-> "Panic", stack |-> st]

\* the accessor named by kind ("any": the value as it is)
as_kind(kind, x) ==
    CASE kind = "any" -> Some(x)
      [] kind = "num" -> as_num(x)
      [] kind = "bool" -> as_bool(x)
      [] kind = "list" -> as_list(x)
      [] kind = "quote" -> as_quote(x)
      [] kind = "string" -> as_string(x)
      [] kind = "set" -> as_set(x)

\* self.pop()?.as_kind()?  (self.pop()? for kind "any"): the operand and the
\* stack without it, or the stack as the failing `?` leaves it
pop_as(st, kind) ==
    IF st = <<>> THEN [ok |-> FALSE, stack |-> st]
    ELSE IF as_kind(kind, Last(st)) = None
         THEN [ok |-> FALSE, stack |-> Front(st)]
         ELSE [ok |-> TRUE, val |-> as_kind(kind, Last(st))[1],
               stack |-> Front(st)]

\* the second pop of pop2, after a first pop with outcome b
pop2_second(b, a) ==
    IF ~a.ok THEN [ok |-> FALSE, stack |-> a.stack]
    ELSE [ok |-> TRUE, a |-> a.val, b |-> b.val, stack |-> a.stack]

\* let b = self.pop()?.as_kind()?; let a = self.pop()?.as_kind()?
pop2(st, kind) ==
    IF ~pop_as(st, kind).ok
    THEN [ok |-> FALSE, stack |-> pop_as(st, kind).stack]
    ELSE pop2_second(pop_as(st, kind),
                     pop_as(pop_as(st, kind).stack, kind))

Abs(n) == IF n < 0 THEN -n ELSE n
\* integer division rounding toward zero (b # 0)
TruncDiv(a, b) ==
    IF (a < 0) = (b < 0) THEN Abs(a) \div Abs(b) ELSE -(Abs(a) \div Abs(b))

Max(a, b) == IF a >= b THEN a ELSE b

\* overflow checks are on in a debug build and off in a release build: a
\* usize subtraction below zero panics in the first and wraps in the second
OverflowPanics == build = "debug"

prim_del(st) ==
    LET a == pop_as(st, "any")
    IN IF ~a.ok THEN RNone(a.stack) ELSE RSome(a.stack)

\* self.pop().unwrap() in place of self.pop()?
prim_dup_unwrap(st) ==
    IF st = <<>> THEN RPanic(st) ELSE RSome(Append(st, Last(st)))

prim_dup(st) ==
    LET a == pop_as(st, "any")
    IN IF ~a.ok THEN RNone(a.stack)
       ELSE RSome(a.stack \o <<a.val, a.val>>)

\* fst is popped first and pushed first: p.b is fst, p.a is snd
prim_flip(st) ==
    LET p == pop2(st, "any")
    IN IF ~p.ok THEN RNone(p.stack) ELSE RSome(p.stack \o <<p.b, p.a>>)

\* copy that counts the depth from the bottom of the stack
prim_copy_from_bottom(st) ==
    LET a == pop_as(st, "num")
    IN IF ~a.ok THEN RNone(a.stack)
       ELSE IF a.val >= 0 /\ a.val < Len(a.stack)
            THEN RSome(Append(a.stack, a.stack[a.val + 1]))
            ELSE IF OverflowPanics THEN RPanic(a.stack)
                 ELSE RNone(a.stack)

\* index = n as usize; stack.get(len - 1 - index)?: with n < 0 the cast wraps
\* to 2^64 + n, so len - 1 - index is below zero exactly when n < 0 or
\* n > len - 1; wrapped, it is an index beyond the stack and get yields None
prim_copy(st) ==
    LET a == pop_as(st, "num")
    IN IF ~a.ok THEN RNone(a.stack)
       ELSE LET i == Len(a.stack) - 1 - a.val
            IN IF a.val >= 0 /\ i >= 0
               THEN RSome(Append(a.stack, a.stack[i + 1]))
               ELSE IF OverflowPanics THEN RPanic(a.stack)
                    ELSE RNone(a.stack)

prim_move(st) ==
    LET a == pop_as(st, "num")
    IN IF ~a.ok THEN RNone(a.stack)
       ELSE LET i == Len(a.stack) - 1 - a.val
            IN IF a.val >= 0 /\ i >= 0
               THEN RSome(SubSeq(a.stack, 1, i)
                          \o SubSeq(a.stack, i + 2, Len(a.stack))
                          \o <<a.stack[i + 1]>>)
               ELSE IF OverflowPanics THEN RPanic(a.stack)
                    ELSE RNone(a.stack)

prim_sb(st) ==
    LET new == pop_as(st, "any")
    IN IF ~new.ok THEN RNone(new.stack)
       ELSE LET test == pop_as(new.stack, "any")
            IN IF ~test.ok THEN RNone(test.stack)
               ELSE LET value == pop_as(test.stack, "any")
                    IN IF ~value.ok THEN RNone(value.stack)
                       ELSE IF value.val = test.val
                            THEN RSome(Append(value.stack, new.val))
                            ELSE RSome(Append(value.stack, value.val))

prim_inc(st) ==
    LET a == pop_as(st, "num")
    IN IF ~a.ok THEN RNone(a.stack)
       ELSE RSome(Append(a.stack, new_num(a.val + 1)))

prim_add_sub(st) ==
    LET p == pop2(st, "num")
    IN IF ~p.ok THEN RNone(p.stack) ELSE RSome(Append(p.stack, new_num(p.a - p.b)))

prim_add(st) ==
    LET p == pop2(st, "num")
    IN IF ~p.ok THEN RNone(p.stack) ELSE RSome(Append(p.stack, new_num(p.a + p.b)))

prim_mul(st) ==
    LET p == pop2(st, "num")
    IN IF ~p.ok THEN RNone(p.stack) ELSE RSome(Append(p.stack, new_num(p.a * p.b)))

\* BigInt division panics on a zero divisor
prim_div(st) ==
    LET p == pop2(st, "num")
    IN IF ~p.ok THEN RNone(p.stack)
       ELSE IF p.b = 0 THEN RPanic(p.stack)
            ELSE RSome(Append(p.stack, new_num(TruncDiv(p.a, p.b))))

prim_eq(st) ==
    LET p == pop2(st, "any")
    IN IF ~p.ok THEN RNone(p.stack) ELSE RSome(Append(p.stack, new_bool(p.a = p.b)))

prim_le(st) ==
    LET p == pop2(st, "num")
    IN IF ~p.ok THEN RNone(p.stack) ELSE RSome(Append(p.stack, new_bool(p.a <= p.b)))

prim_ge(st) ==
    LET p == pop2(st, "num")
    IN IF ~p.ok THEN RNone(p.stack) ELSE RSome(Append(p.stack, new_bool(p.a >= p.b)))

prim_and(st) ==
    LET p == pop2(st, "bool")
    IN IF ~p.ok THEN RNone(p.stack) ELSE RSome(Append(p.stack, new_bool(p.a /\ p.b)))

prim_or(st) ==
    LET p == pop2(st, "bool")
    IN IF ~p.ok THEN RNone(p.stack) ELSE RSome(Append(p.stack, new_bool(p.a \/ p.b)))

\* Vec::split_off(at) panics when at > len; a still negative index casts to
\* a usize beyond every length
prim_splitat(st) ==
    LET index == pop_as(st, "num")
    IN IF ~index.ok THEN RNone(index.stack)
       ELSE LET arg == pop_as(index.stack, "any")
            IN IF ~arg.ok THEN RNone(arg.stack)
               ELSE IF as_list(arg.val) = None THEN RNone(arg.stack)
                    ELSE LET list == as_list(arg.val)[1]
                             at == IF index.val < 0
                                   THEN Len(list) + index.val
                                   ELSE index.val
                         IN IF at < 0 \/ at > Len(list) THEN RPanic(arg.stack)
                            ELSE RSome(arg.stack
                                  \o <<new_list(SubSeq(list, at + 1, Len(list))),
                                       new_list(SubSeq(list, 1, at))>>)

\* take without the floor at 0: a count still negative casts to a usize
\* beyond every length and truncate keeps the whole list
prim_take_no_floor(st) ==
    LET c == pop_as(st, "num")
    IN IF ~c.ok THEN RNone(c.stack)
       ELSE LET l == pop_as(c.stack, "list")
            IN IF ~l.ok THEN RNone(l.stack)
               ELSE LET count == IF c.val < 0 THEN Len(l.val) + c.val
                                 ELSE c.val
                        kept == IF 0 <= count /\ count < Len(l.val)
                                THEN count ELSE Len(l.val)
                    IN RSome(Append(l.stack, new_list(SubSeq(l.val, 1, kept))))

prim_take(st) ==
    LET c == pop_as(st, "num")
    IN IF ~c.ok THEN RNone(c.stack)
       ELSE LET l == pop_as(c.stack, "list")
            IN IF ~l.ok THEN RNone(l.stack)
               ELSE LET count == IF c.val < 0
                                 THEN Max(0, Len(l.val) + c.val)
                                 ELSE c.val
                        kept == IF count < Len(l.val) THEN count ELSE Len(l.val)
                    IN RSome(Append(l.stack, new_list(SubSeq(l.val, 1, kept))))

\* char::is_alphanumeric, on the characters of the model's alphabet
is_alphanumeric(ch) == to_digit(ch) # None \/ ch \in {"a", "b", "c", "z"}

\* str::split with the predicate !is_alphanumeric: every matching character
\* ends a piece, the text after the last one is a piece too; piece is the
\* piece being read, i the position of the next character
RECURSIVE split_words(_, _, _)
split_words(s, piece, i) ==
    IF i > Len(s) THEN <<piece>>
    ELSE IF ~is_alphanumeric(s[i])
         THEN <<piece>> \o split_words(s, <<>>, i + 1)
         ELSE split_words(s, Append(piece, s[i]), i + 1)

prim_words(st) ==
    LET arg == pop_as(st, "string")
    IN IF ~arg.ok THEN RNone(arg.stack)
       ELSE RSome(Append(arg.stack,
                         new_list([i \in 1..Len(split_words(arg.val, <<>>, 1)) |->
                                     new_str(split_words(arg.val, <<>>, 1)[i])])))

\* size = n as usize: a negative n is a size above every length; the loop
\* runs i over 0 .. list.len() - size, the upper end excluded
prim_frames(st) ==
    LET size == pop_as(st, "num")
    IN IF ~size.ok THEN RNone(size.stack)
       ELSE LET list == pop_as(size.stack, "list")
            IN IF ~list.ok THEN RNone(list.stack)
               ELSE IF size.val < 0 \/ size.val > Len(list.val)
                    THEN RSome(Append(list.stack, new_list(<<>>)))
                    ELSE RSome(Append(list.stack,
                           new_list([i \in 1..(Len(list.val) - size.val) |->
                                       new_list(SubSeq(list.val, i,
                                                       i + size.val - 1))])))

irange_list_open(lower, upper) ==
    [i \in 1..Max(0, upper - lower) |-> new_num(lower + i - 1)]

irange_list(lower, upper) ==
    [i \in 1..Max(0, upper - lower + 1) |-> new_num(lower + i - 1)]

\* upper is popped first: p.b is upper, p.a is lower
prim_irange(st) ==
    LET p == pop2(st, "num")
    IN IF ~p.ok THEN RNone(p.stack)
       ELSE RSome(Append(p.stack, new_list(irange_list(p.a, p.b))))

prim_iota_from1(st) ==
    LET count == pop_as(st, "num")
    IN IF ~count.ok THEN RNone(count.stack)
       ELSE RSome(Append(count.stack,
                  new_list([i \in 1..Max(0, count.val) |-> new_num(i)])))

prim_iota(st) ==
    LET count == pop_as(st, "num")
    IN IF ~count.ok THEN RNone(count.stack)
       ELSE RSome(Append(count.stack,
                  new_list([i \in 1..Max(0, count.val) |-> new_num(i - 1)])))

\* slice::chunks(0) panics; a negative size casts to a usize larger than any
\* list, which makes the whole (non-empty) list one chunk
prim_chunks(st) ==
    LET size == pop_as(st, "num")
    IN IF ~size.ok THEN RNone(size.stack)
       ELSE LET l == pop_as(size.stack, "list")
            IN IF ~l.ok THEN RNone(l.stack)
               ELSE IF size.val = 0 THEN RPanic(l.stack)
                    ELSE LET n == Len(l.val)
                             sz == IF size.val < 0 THEN Max(n, 1) ELSE size.val
                             cnt == (n + sz - 1) \div sz
                             chunk(j) ==
                                 new_list(SubSeq(l.val, (j - 1) * sz + 1,
                                                 IF j * sz < n THEN j * sz ELSE n))
                         IN RSome(Append(l.stack,
                                         new_list([j \in 1..cnt |-> chunk(j)])))

prim_each(st) ==
    LET l == pop_as(st, "list")
    IN IF ~l.ok THEN RNone(l.stack)
       ELSE RSome(l.stack \o [i \in 1..Len(l.val) |-> l.val[Len(l.val) + 1 - i]])

prim_len(st) ==
    LET arg == pop_as(st, "any")
    IN IF ~arg.ok THEN RNone(arg.stack)
       ELSE IF as_list(arg.val) = None THEN RNone(arg.stack)
            ELSE RSome(Append(arg.stack, new_num(Len(as_list(arg.val)[1]))))

prim_append(st) ==
    LET p == pop2(st, "list")
    IN IF ~p.ok THEN RNone(p.stack) ELSE RSome(Append(p.stack, new_list(p.a \o p.b)))

\* s starts with the characters of from
starts_with(s, from) ==
    /\ Len(from) <= Len(s)
    /\ SubSeq(s, 1, Len(from)) = from

\* the text after the first n characters of s
str_from(s, n) == SubSeq(s, n + 1, Len(s))

\* only the first match is replaced
RECURSIVE str_replace_first(_, _, _)
str_replace_first(s, from, to) ==
    IF from = <<>> THEN to \o s
    ELSE IF s = <<>> THEN <<>>
    ELSE IF starts_with(s, from) THEN to \o str_from(s, Len(from))
    ELSE <<s[1]>> \o str_replace_first(str_from(s, 1), from, to)

\* str::replace: the matches of from are found left to right without
\* overlap and each is replaced by to; the empty pattern matches before
\* every character and at the end
RECURSIVE str_replace(_, _, _)
str_replace(s, from, to) ==
    IF from = <<>>
    THEN IF s = <<>> THEN to
         ELSE to \o <<s[1]>> \o str_replace(str_from(s, 1), from, to)
    ELSE IF s = <<>> THEN <<>>
    ELSE IF starts_with(s, from)
         THEN to \o str_replace(str_from(s, Len(from)), from, to)
         ELSE <<s[1]>> \o str_replace(str_from(s, 1), from, to)

\* the arm after its three pops: the coercions of the haystack, of arg2 and
\* of arg3, in this order
s_replace(arg3, arg2, haystack, st) ==
    IF as_string(haystack) = None \/ as_string(arg2) = None
       \/ as_string(arg3) = None
    THEN RNone(st)
    ELSE RSome(Append(st, new_str(str_replace(as_string(haystack)[1],
                                              as_string(arg2)[1],
                                              as_string(arg3)[1]))))

prim_s(st) ==
    IF Len(st) < 3 THEN RNone(<<>>)
    ELSE s_replace(st[Len(st)], st[Len(st) - 1], st[Len(st) - 2],
                   SubSeq(st, 1, Len(st) - 3))

\* the arm pushes the set that r built, unless building it overflowed an
\* i64 in a build that checks for overflow
push_built(st, r) ==
    IF r.overflow /\ OverflowPanics THEN RPanic(st)
    ELSE RSome(Append(st, new_set(r.set)))

prim_set(st) ==
    IF ~pop_as(st, "any").ok THEN RNone(pop_as(st, "any").stack)
    ELSE IF as_list(pop_as(st, "any").val) = None THEN RNone(Front(st))
    ELSE push_built(Front(st), from_vec(as_list(Last(st))[1]))

prim_nub(st) ==
    IF ~pop_as(st, "set").ok THEN RNone(pop_as(st, "set").stack)
    ELSE RSome(Append(Front(st), new_list(keys(pop_as(st, "set").val))))

\* the set popped first is self, the set popped second is that
union_popped(p) ==
    IF ~p.ok THEN RNone(p.stack)
    ELSE push_built(p.stack, polyset_union(p.b, p.a))

prim_union(st) == union_popped(pop2(st, "set"))

join_popped(p) ==
    IF ~p.ok THEN RNone(p.stack)
    ELSE push_built(p.stack, polyset_join(p.b, p.a))

prim_join(st) == join_popped(pop2(st, "set"))

(***************************************************************************)
(* The higher-order arms and the evaluation loop.  A nested eval_cursor    *)
(* call yields the VM and the trace it leaves and a status: "ok", "panic"  *)
(* (an arm panicked) or "overflow" (the call stack is exhausted, which     *)
(* aborts the process).  depth counts the eval_cursor calls on the stack.  *)
(***************************************************************************)
RECURSIVE eval_cursor(_, _, _, _)
RECURSIVE eval_loop(_, _, _, _)
RECURSIVE eval_prim(_, _, _, _)
RECURSIVE map_loop(_, _, _, _, _, _)

Arm(res, st, tr) == [res |-> res, stack |-> st, trace |-> tr]

Simple(r, tr) == Arm(r.res, r.stack, tr)

Aborted(st) == IF st = "panic" THEN "Panic" ELSE "Overflow"

prim_collect(self, tr, depth) ==
    LET arg == pop_as(self.stack, "any")
    IN IF ~arg.ok THEN Arm("None", arg.stack, tr)
       ELSE IF as_quote(arg.val) = None THEN Arm("None", arg.stack, tr)
            ELSE LET child == new_child([self EXCEPT !.stack = arg.stack])
                     r == eval_cursor(child, tr, as_quote(arg.val)[1], depth + 1)
                 IN IF r.status # "ok"
                    THEN Arm(Aborted(r.status), arg.stack, r.trace)
                    ELSE Arm("Some", Append(arg.stack, new_list(r.vm.stack)),
                             r.trace)

\* the stack a run leaves is put before the results of the earlier runs
RECURSIVE map_loop_prepend(_, _, _, _, _, _)
map_loop_prepend(self, tr, cur, list, i, result) ==
    IF i > Len(list) THEN [status |-> "ok", result |-> result, trace |-> tr]
    ELSE LET child == push(new_child(self.vm), list[i])
             r == eval_cursor(child, tr, cur, self.depth + 1)
         IN IF r.status # "ok"
            THEN [status |-> r.status, result |-> result, trace |-> r.trace]
            ELSE map_loop_prepend(self, r.trace, cur, list, i + 1,
                                  r.vm.stack \o result)

\* the for loop of the map arm, from element i on; self is the VM after the
\* two pops, result the list built so far
map_loop(self, tr, cur, list, i, result) ==
    IF i > Len(list) THEN [status |-> "ok", result |-> result, trace |-> tr]
    ELSE LET child == push(new_child(self.vm), list[i])
             r == eval_cursor(child, tr, cur, self.depth + 1)
         IN IF r.status # "ok"
            THEN [status |-> r.status, result |-> result, trace |-> r.trace]
            ELSE map_loop(self, r.trace, cur, list, i + 1,
                          result \o r.vm.stack)

prim_map(self, tr, depth) ==
    LET arg2 == pop_as(self.stack, "any")
    IN IF ~arg2.ok THEN Arm("None", arg2.stack, tr)
       ELSE LET arg1 == pop_as(arg2.stack, "any")
            IN IF ~arg1.ok THEN Arm("None", arg1.stack, tr)
               ELSE IF as_list(arg1.val) = None \/ as_quote(arg2.val) = None
                    THEN Arm("None", arg1.stack, tr)
                    ELSE LET me == [self EXCEPT !.stack = arg1.stack]
                             r == map_loop([vm |-> me, depth |-> depth], tr,
                                           as_quote(arg2.val)[1],
                                           as_list(arg1.val)[1], 1, <<>>)
                         IN IF r.status # "ok"
                            THEN Arm(Aborted(r.status), arg1.stack, r.trace)
                            ELSE Arm("Some",
                                     Append(arg1.stack, new_list(r.result)),
                                     r.trace)

\* count = n as usize; index = len - count, below zero exactly when n < 0
\* (the cast wraps to 2^64 + n) or n > len; wrapped, index > len
prim_under(self, tr, depth) ==
    LET count == pop_as(self.stack, "num")
    IN IF ~count.ok THEN Arm("None", count.stack, tr)
       ELSE LET cur == pop_as(count.stack, "quote")
            IN IF ~cur.ok THEN Arm("None", cur.stack, tr)
               ELSE LET index == Len(cur.stack) - count.val
                    IN IF count.val < 0 \/ index < 0
                       THEN IF OverflowPanics THEN Arm("Panic", cur.stack, tr)
                            ELSE Arm("None", cur.stack, tr)
                       ELSE LET temp == SubSeq(cur.stack, index + 1,
                                               Len(cur.stack))
                                me == [self EXCEPT
                                         !.stack = SubSeq(cur.stack, 1, index)]
                                r == eval_cursor(me, tr, cur.val, depth + 1)
                            IN IF r.status # "ok"
                               THEN Arm(Aborted(r.status), r.vm.stack, r.trace)
                               ELSE Arm("Some", r.vm.stack \o temp, r.trace)

N_del == <<"d", "e", "l">>
N_dup == <<"d", "u", "p">>
N_flip == <<"f", "l", "i", "p">>
N_copy == <<"c", "o", "p", "y">>
N_move == <<"m", "o", "v", "e">>
N_sb == <<"s", "b">>
N_inc == <<"i", "n", "c">>
N_add == <<"+">>
N_mul == <<"*">>
N_div == <<"/">>
N_eq == <<"=", "=">>
N_le == <<"=", "<">>
N_ge == <<">", "=">>
N_and == <<"a", "n", "d">>
N_or == <<"o", "r">>
N_splitat == <<"s", "p", "l", "i", "t", "a", "t">>
N_take == <<"t", "a", "k", "e">>
N_irange == <<"i", "r", "a", "n", "g", "e">>
N_iota == <<"i", "o", "t", "a">>
N_chunks == <<"c", "h", "u", "n", "k", "s">>
N_each == <<"e", "a", "c", "h">>
N_len == <<"l", "e", "n">>
N_append == <<"a", "p", "p", "e", "n", "d">>
N_collect == <<"c", "o", "l", "l", "e", "c", "t">>
N_map == <<"m", "a", "p">>
N_under == <<"u", "n", "d", "e", "r">>

N_s == <<"s">>
N_read == <<"r", "e", "a", "d">>
N_lines == <<"l", "i", "n", "e", "s">>
N_words == <<"w", "o", "r", "d", "s">>
N_split == <<"s", "p", "l", "i", "t">>
N_crange == <<"c", "r", "a", "n", "g", "e">>
N_indexed == <<"i", "n", "d", "e", "x", "e", "d">>
N_num == <<"n", "u", "m">>
N_set == <<"s", "e", "t">>
N_nub == <<"n", "u", "b">>
N_frames == <<"f", "r", "a", "m", "e", "s">>
N_sum == <<"s", "u", "m">>
N_max == <<"m", "a", "x">>
N_rsort == <<"r", "s", "o", "r", "t">>
N_find == <<"f", "i", "n", "d">>
N_union == <<"u", "n", "i", "o", "n">>
N_join == <<"j", "o", "i", "n">>
N_shape == <<"s", "h", "a", "p", "e">>

\* the identifiers eval_prim has an arm for that are modelled here
PrimNames ==
    {N_del, N_dup, N_flip, N_copy, N_move, N_sb, N_inc, N_add, N_mul, N_div,
     N_eq, N_le, N_ge, N_and, N_or, N_splitat, N_take, N_irange, N_iota,
     N_chunks, N_each, N_len, N_append, N_collect, N_map, N_under, N_s,
     N_set, N_nub, N_union, N_join, N_words, N_frames}

\* every identifier eval_prim has an arm for
PrimTable ==
    PrimNames \cup {N_read, N_lines, N_split, N_crange,
                    N_indexed, N_num, N_sum, N_max, N_rsort,
                    N_find, N_shape}

prim_unknown_skip(st) == RSome(st)

\* the `_` arm: None?
prim_unknown(st) == RNone(st)

\* the match of eval_prim: the outcome of the arm that prim selects (the
\* programs of this model use the identifiers of PrimNames and identifiers
\* outside PrimTable)
prim_arm(self, tr, prim, depth) ==
    CASE prim = N_del -> Simple(prim_del(self.stack), tr)
      [] prim = N_dup -> Simple(prim_dup(self.stack), tr)
      [] prim = N_flip -> Simple(prim_flip(self.stack), tr)
      [] prim = N_copy -> Simple(prim_copy(self.stack), tr)
      [] prim = N_move -> Simple(prim_move(self.stack), tr)
      [] prim = N_sb -> Simple(prim_sb(self.stack), tr)
      [] prim = N_inc -> Simple(prim_inc(self.stack), tr)
      [] prim = N_add -> Simple(prim_add(self.stack), tr)
      [] prim = N_mul -> Simple(prim_mul(self.stack), tr)
      [] prim = N_div -> Simple(prim_div(self.stack), tr)
      [] prim = N_eq -> Simple(prim_eq(self.stack), tr)
      [] prim = N_le -> Simple(prim_le(self.stack), tr)
      [] prim = N_ge -> Simple(prim_ge(self.stack), tr)
      [] prim = N_and -> Simple(prim_and(self.stack), tr)
      [] prim = N_or -> Simple(prim_or(self.stack), tr)
      [] prim = N_splitat -> Simple(prim_splitat(self.stack), tr)
      [] prim = N_take -> Simple(prim_take(self.stack), tr)
      [] prim = N_irange -> Simple(prim_irange(self.stack), tr)
      [] prim = N_iota -> Simple(prim_iota(self.stack), tr)
      [] prim = N_chunks -> Simple(prim_chunks(self.stack), tr)
      [] prim = N_each -> Simple(prim_each(self.stack), tr)
      [] prim = N_len -> Simple(prim_len(self.stack), tr)
      [] prim = N_append -> Simple(prim_append(self.stack), tr)
      [] prim = N_s -> Simple(prim_s(self.stack), tr)
      [] prim = N_set -> Simple(prim_set(self.stack), tr)
      [] prim = N_nub -> Simple(prim_nub(self.stack), tr)
      [] prim = N_union -> Simple(prim_union(self.stack), tr)
      [] prim = N_join -> Simple(prim_join(self.stack), tr)
      [] prim = N_words -> Simple(prim_words(self.stack), tr)
      [] prim = N_frames -> Simple(prim_frames(self.stack), tr)
      [] prim = N_collect -> prim_collect(self, tr, depth)
      [] prim = N_map -> prim_map(self, tr, depth)
      [] prim = N_under -> prim_under(self, tr, depth)
      [] prim \notin PrimTable -> Simple(prim_unknown(self.stack), tr)

\* the match on the result of the try block; r is the outcome of the arm
prim_result(self, r) ==
    CASE r.res = "Some" ->
              [vm |-> [self EXCEPT !.stack = r.stack], trace |-> r.trace,
               status |-> "ok"]
      [] r.res = "None" ->
              [vm |-> [self EXCEPT !.stack = Append(r.stack, new_poison)],
               trace |-> r.trace, status |-> "ok"]
      [] r.res = "Panic" ->
              [vm |-> [self EXCEPT !.stack = r.stack], trace |-> r.trace,
               status |-> "panic"]
      [] r.res = "Overflow" ->
              [vm |-> [self EXCEPT !.stack = r.stack], trace |-> r.trace,
               status |-> "overflow"]

eval_prim(self, tr, prim, depth) ==
    prim_result(self, prim_arm(self, tr, prim, depth))

\* the quote is captured with the focus left at the end of its body
quote_value_at_end(cur) == new_quote(move_up(cur))

\* the value pushed for a consumed Quote: cur is the cursor after move_right
quote_value(cur) == new_quote(move_very_left(move_up(cur)))

\* the match on the consumed expression; cur is the cursor after move_right
eval_match(self, tr, cur, expr, depth) ==
    CASE expr.e = "Ident" -> eval_prim(self, tr, expr.s, depth)
      [] expr.e = "StrLit" ->
           [vm |-> push(self, new_str(expr.s)), trace |-> tr, status |-> "ok"]
      [] expr.e = "NumLit" ->
           [vm |-> push(self, new_num(expr.n)), trace |-> tr, status |-> "ok"]
      [] expr.e = "Quote" ->
           [vm |-> push(self, quote_value(cur)), trace |-> tr, status |-> "ok"]

\* line 361: the snapshot after the effect; r is the outcome of the match
snapshot_after(r, cur) ==
    IF r.status # "ok" THEN r
    ELSE [r EXCEPT !.trace = add_snapshot(r.vm, r.trace, shape(cur))]

\* one pass through the body of eval_cursor's loop: cur is the cursor after
\* move_right, expr the consumed expression
eval_expr(self, tr, cur, expr, depth) ==
    snapshot_after(eval_match(self, tr, cur, expr, depth), cur)

\* the loop goes on after a pass with outcome r, unless it aborted
loop_next(r, cur, depth) ==
    IF r.status # "ok" THEN r ELSE eval_loop(r.vm, r.trace, cur, depth)

eval_loop(self, tr, cur, depth) ==
    IF next_expr(cur) = None
    THEN [vm |-> self, trace |-> tr, status |-> "ok"]
    ELSE loop_next(eval_expr(self, tr, move_right(cur), next_expr(cur)[1],
                             depth),
                   move_right(cur), depth)

eval_cursor(self, tr, cur, depth) ==
    IF depth > MaxDepth
    THEN [vm |-> self, trace |-> tr, status |-> "overflow"]
    ELSE eval_loop(self, add_snapshot(self, tr, shape(cur)), cur, depth)

(***************************************************************************)
(* The programs evaluated.                                                 *)
(***************************************************************************)
N_empty == <<>>
N_zz == <<"z", "z">>

\* identifiers that are not in the primitive table
UnknownNames == {N_empty, N_zz}

Q_inc == ExprQuote(<<ExprIdent(N_inc)>>)
Q_nested == ExprQuote(<<Q_inc, ExprIdent(N_collect)>>)
Q_omega == ExprQuote(<<ExprIdent(N_dup), ExprNumLit(0), ExprIdent(N_under)>>)

Nums == (0 - MaxNeg)..MaxNum

Literals ==
    {ExprNumLit(n) : n \in Nums} \cup {ExprStrLit(<<"a">>), Q_inc}

GenExprs ==
    {ExprNumLit(0), ExprNumLit(1), ExprStrLit(<<"a">>), Q_inc, Q_nested}
    \cup {ExprIdent(p) : p \in {N_dup, N_add, N_inc, N_collect, N_map,
                                N_under, N_zz, N_empty}}

SeqsUpTo(S, n) == UNION {[1..k -> S] : k \in 0..n}

\* every sequence of at most MaxLen expressions of the general alphabet
GenPrograms == SeqsUpTo(GenExprs, MaxLen)

\* every identifier applied to the empty stack and to every two literals
PrimPrograms ==
    {<<ExprIdent(p)>> : p \in PrimNames \cup UnknownNames}
    \cup {<<a, b, ExprIdent(p)>> :
            a \in Literals, b \in Literals, p \in PrimNames \cup UnknownNames}

\* n iota {inc} map
MapPrograms ==
    {<<ExprNumLit(n), ExprIdent(N_iota), Q_inc, ExprIdent(N_map)>> :
       n \in 0..MaxIota}

\* {dup 0 under} dup 0 under
OmegaProgram ==
    <<Q_omega, ExprIdent(N_dup), ExprNumLit(0), ExprIdent(N_under)>>

\* the strings of at most n characters over the alphabet S
Strs(S, n) == SeqsUpTo(S, n)

\* haystack needle replacement s
ReplaceProgram(h, n, r) ==
    <<ExprStrLit(h), ExprStrLit(n), ExprStrLit(r), ExprIdent(N_s)>>

ReplacePrograms ==
    {ReplaceProgram(h, n, r) :
       h \in Strs({"a", "b"}, MaxLen), n \in Strs({"a", "b"}, MaxLen - 1),
       r \in {<<>>, <<"c">>, <<"a">>}}

PolyOps == {N_union, N_join}

\* a string made a set
SetPrograms ==
    {<<ExprStrLit(x), ExprIdent(N_set)>> : x \in Strs({"a", "b"}, MaxLen)}

\* two strings, or a string and the result of an operation, combined
CombinePrograms ==
    {<<ExprStrLit(x), ExprStrLit(y), ExprIdent(op)>> :
       x \in Strs({"a", "b"}, MaxLen - 1), y \in Strs({"a", "b"}, MaxLen - 1),
       op \in PolyOps}
    \cup
    {<<ExprStrLit(x), ExprStrLit(y), ExprIdent(op1), ExprStrLit(z),
       ExprIdent(op2)>> :
       x \in Strs({"a", "b"}, MaxLen - 1), y \in Strs({"a", "b"}, MaxLen - 1),
       z \in {<<"a">>, <<"b", "a">>}, op1 \in PolyOps, op2 \in PolyOps}

\* dup op, once for every operation of ops
RECURSIVE DupOps(_)
DupOps(ops) ==
    IF ops = <<>> THEN <<>>
    ELSE <<ExprIdent(N_dup), ExprIdent(Head(ops))>> \o DupOps(Tail(ops))

\* a set combined with itself, at most MaxChain times over
ChainPrograms ==
    {<<ExprStrLit(x)>> \o DupOps(ops) :
       x \in {<<"a", "a">>, <<"a", "b">>}, ops \in SeqsUpTo(PolyOps, MaxChain)}

PolyPrograms == SetPrograms \cup CombinePrograms \cup ChainPrograms

Q_del == ExprQuote(<<ExprIdent(N_del)>>)
Q_dup == ExprQuote(<<ExprIdent(N_dup)>>)
Q_one == ExprQuote(<<ExprNumLit(1)>>)
Q_twice == ExprQuote(<<ExprIdent(N_dup), ExprIdent(N_inc)>>)

\* quotes that read, remove and add values
HigherQuotes == {ExprQuote(<<>>), Q_inc, Q_del, Q_dup, Q_one, Q_twice}

\* x q collect
CollectPrograms ==
    {<<ExprNumLit(x), q, ExprIdent(N_collect)>> :
       x \in {0, 1}, q \in HigherQuotes}

\* x n iota q map
MapOverPrograms ==
    {<<ExprNumLit(x), ExprNumLit(n), ExprIdent(N_iota), q, ExprIdent(N_map)>> :
       x \in {0, 1}, n \in 0..MaxIota, q \in HigherQuotes}

\* x y q n under, with counts up to one more than the values left
UnderPrograms ==
    {<<ExprNumLit(x), ExprNumLit(y), q, ExprNumLit(n), ExprIdent(N_under)>> :
       x \in {0, 1}, y \in {0, 1}, n \in 0..3, q \in HigherQuotes}

HigherPrograms == CollectPrograms \cup MapOverPrograms \cup UnderPrograms

\* three values of different kinds
Distinct3 == <<ExprNumLit(5), ExprStrLit(<<"a">>), Q_inc>>

\* up to three values, a depth and copy or move
ShufflePrograms ==
    {SubSeq(Distinct3, 1, k) \o <<ExprNumLit(n), ExprIdent(p)>> :
       k \in 0..3, n \in (0 - 1)..3, p \in {N_copy, N_move}}

\* a string, a number and a primitive that cuts lists
CutPrograms ==
    {<<ExprStrLit(x), ExprNumLit(n), ExprIdent(p)>> :
       x \in {<<>>, <<"a", "b">>, <<"a", "b", "c">>}, n \in Nums,
       p \in {N_splitat, N_take, N_frames}}

\* a string of words and separators, split into words
WordsPrograms ==
    {<<ExprStrLit(x), ExprIdent(N_words)>> :
       x \in Strs({"a", "1", " ", ","}, MaxLen)
             \cup {<<"a", ",", " ", "b">>, <<"a", "1", " ", " ", " ", "b">>}}

ListPrograms == ShufflePrograms \cup CutPrograms \cup WordsPrograms

Programs ==
    GenPrograms \cup PrimPrograms \cup MapPrograms \cup {OmegaProgram}
    \cup ReplacePrograms \cup PolyPrograms \cup HigherPrograms
    \cup ListPrograms

(***************************************************************************)
(* Evaluation of a program, as Shell::layout starts it: a new VM, an empty *)
(* trace and eval_cursor on initial(program).  The outermost eval_cursor   *)
(* call is taken one loop iteration at a time.                             *)
(***************************************************************************)
Init ==
    /\ program \in Programs
    /\ build \in {"debug", "release"}
    /\ cursor = initial(program)
    /\ vm = vm_new
    /\ trace = <<>>
    /\ status = "start"

\* eval_cursor, line 341: the snapshot at the starting shape
EvalBegin ==
    /\ status = "start"
    /\ trace' = add_snapshot(vm, trace, shape(cursor))
    /\ status' = "running"
    /\ UNCHANGED <<program, cursor, vm, build>>

\* the outermost evaluation after a pass through the loop with outcome r
Becomes(r) ==
    /\ vm' = r.vm
    /\ trace' = r.trace
    /\ status' = IF r.status = "ok" THEN "running" ELSE r.status

\* one iteration of the while loop that consumes an expression of kind e
EvalKind(e) ==
    /\ status = "running"
    /\ next_expr(cursor) # None
    /\ next_expr(cursor)[1].e = e
    /\ cursor' = move_right(cursor)
    /\ Becomes(eval_expr(vm, trace, move_right(cursor), next_expr(cursor)[1], 0))
    /\ UNCHANGED <<program, build>>

EvalIdent == EvalKind("Ident")

EvalStrLit == EvalKind("StrLit")

EvalNumLit == EvalKind("NumLit")

EvalQuote == EvalKind("Quote")

\* the while loop ends: next_expr is None
EvalEnd ==
    /\ status = "running"
    /\ next_expr(cursor) = None
    /\ status' = "done"
    /\ UNCHANGED <<program, cursor, vm, trace, build>>

Next ==
    \/ EvalBegin
    \/ EvalIdent
    \/ EvalStrLit
    \/ EvalNumLit
    \/ EvalQuote
    \/ EvalEnd

Spec == Init /\ [][Next]_vars

TypeOK ==
    /\ status \in {"start", "running", "done", "panic", "overflow"}
    /\ build \in {"debug", "release"}

(***************************************************************************)
(* Helpers of the properties.                                              *)
(***************************************************************************)
\* the expression the next loop iteration consumes
Consumed == next_expr(cursor)[1]

Ended == status \in {"done", "panic", "overflow"}

TraceAt(key) == IF key \in DOMAIN trace THEN trace[key] ELSE <<>>

RECURSIVE Innermost(_)
Innermost(c) == IF c.v = "Quote" THEN Innermost(c.cursor) ELSE c

\* the expression of prog that follows the position with shape key
RECURSIVE ExprAfter(_, _)
ExprAfter(prog, key) ==
    IF key.v = "Quote" THEN ExprAfter(prog[key.head + 1].body, key.cursor)
    ELSE IF key.tail > 0 THEN Some(prog[key.head + 1]) ELSE None

\* the shape one expression further right
RECURSIVE ShapeRight(_)
ShapeRight(key) ==
    IF key.v = "Quote" THEN [key EXCEPT !.cursor = ShapeRight(key.cursor)]
    ELSE ShapeEdge(key.head + 1, key.tail - 1)

MapProgram(n) == <<ExprNumLit(n), ExprIdent(N_iota), Q_inc, ExprIdent(N_map)>>
KeyBeforeInc == ShapeQuote(2, ShapeEdge(0, 1), 1)
KeyAfterInc == ShapeQuote(2, ShapeEdge(1, 0), 1)

(***************************************************************************)
(* The editor: the operations of Cursor applied, in any order, to a cursor *)
(* that starts as one of the empty constructors.  status is "editing", or  *)
(* "panic" once an operation met a focus it panics on; program, vm and     *)
(* trace are not used.                                                     *)
(***************************************************************************)
RECURSIVE prog_size(_)
prog_size(prog) ==
    IF prog = <<>> THEN 0
    ELSE 1 + (IF Head(prog).e = "Quote" THEN prog_size(Head(prog).body) ELSE 0)
           + prog_size(Tail(prog))

\* the expressions of a cursor, finished or in progress, at every level
RECURSIVE cursor_size(_)
cursor_size(c) ==
    prog_size(c.head) + prog_size(c.tail)
    + (CASE c.v = "Edge" -> 0
         [] c.v = "Quote" -> 1 + cursor_size(c.cursor)
         [] OTHER -> 1)

\* the characters of the expressions of a program
RECURSIVE prog_chars(_)
prog_chars(prog) ==
    IF prog = <<>> THEN 0
    ELSE (CASE Head(prog).e \in {"Ident", "StrLit"} -> Len(Head(prog).s)
            [] Head(prog).e = "Quote" -> prog_chars(Head(prog).body)
            [] OTHER -> 0)
         + prog_chars(Tail(prog))

\* the characters a cursor holds, in its expressions and in its buffer
RECURSIVE cursor_chars(_)
cursor_chars(c) ==
    prog_chars(c.head) + prog_chars(c.tail)
    + (CASE c.v \in {"Ident", "StrLit"} -> Len(c.s)
         [] c.v = "Quote" -> cursor_chars(c.cursor)
         [] OTHER -> 0)

\* the characters typed
Keys == {"a", "7"}

X_a == ExprIdent(<<"a">>)
S_e == ExprStrLit(<<>>)

\* the fragments inserted: the empty constructors, and fragments of each
\* variant with an expression before or after the focus
EmptyFragments ==
    {empty, empty_ident, empty_str_lit, empty_num_lit, empty_quote}

\* the five variants with the head h and the tail t
FragmentsAround(h, t) ==
    {Edge(h, t), Quote(h, empty, t), Ident(h, 0, <<>>, t),
     StrLit(h, 0, <<>>, t), NumLit(h, None, t)}

LoadedFragments ==
    {Edge(<<X_a>>, <<S_e>>)} \cup FragmentsAround(<<X_a>>, <<>>)
    \cup FragmentsAround(<<>>, <<S_e>>)

Fragments == EmptyFragments \cup LoadedFragments

\* no accumulator of at most MaxAcc overflows when it takes a digit, so the
\* two builds behave alike here
EdInit ==
    /\ cursor \in EmptyFragments
    /\ build = "debug"
    /\ program = <<>>
    /\ vm = vm_new
    /\ trace = <<>>
    /\ status = "editing"

\* an operation has left the cursor c
EdStep(c) ==
    /\ cursor' = c
    /\ UNCHANGED <<program, vm, trace, status, build>>

\* the operation panicked
EdPanic ==
    /\ status' = "panic"
    /\ UNCHANGED <<program, cursor, vm, trace, build>>

EdMoveLeft == status # "panic" /\ EdStep(move_left(cursor))

EdMoveRight == status # "panic" /\ EdStep(move_right(cursor))

EdMoveVeryLeft ==
    status # "panic" /\ EdStep(move_very_left(cursor))

EdMoveUp == status # "panic" /\ EdStep(move_up(cursor))

\* move_out calls program() on the focus it leaves
EdMoveOut ==
    /\ status # "panic"
    /\ IF cursor.v = "Quote" /\ mode(cursor) # "Normal" THEN EdPanic
       ELSE EdStep(move_out(cursor))

EdInsert ==
    /\ status # "panic"
    /\ \E subst \in Fragments :
          /\ cursor_size(cursor) + cursor_size(subst) <= MaxExprs
          /\ cursor_chars(cursor) + cursor_chars(subst) <= MaxTyped
          /\ IF mode(cursor) # "Normal" THEN EdPanic
             ELSE EdStep(insert(cursor, subst))

EdDeleteBefore ==
    /\ status # "panic"
    /\ IF mode(cursor) # "Normal" THEN EdPanic
       ELSE EdStep(delete_before(cursor))

\* the buffers and the accumulator an input may still extend
InputInBounds(c) ==
    CASE Innermost(c).v \in {"Ident", "StrLit"} -> cursor_chars(c) < MaxTyped
      [] Innermost(c).v = "NumLit" ->
            IF Innermost(c).n = None THEN TRUE
            ELSE 0 <= Innermost(c).n[1] /\ Innermost(c).n[1] <= MaxAcc
      [] OTHER -> TRUE

\* input of the character ch
InputChar(ch) ==
    /\ status # "panic"
    /\ IF mode(cursor) = "Normal" THEN EdPanic
       ELSE IF input_overflows(cursor, ch) /\ OverflowPanics THEN EdPanic
       ELSE EdStep(input(cursor, ch))

EdInputChar(ch) == InputInBounds(cursor) /\ InputChar(ch)

EdInput == \E ch \in Keys : EdInputChar(ch)

EdEscape ==
    status # "panic" /\ EdStep(escape_to_normal(cursor))

EdNext ==
    \/ EdMoveLeft
    \/ EdMoveRight
    \/ EdMoveVeryLeft
    \/ EdMoveUp
    \/ EdMoveOut
    \/ EdInsert
    \/ EdDeleteBefore
    \/ EdInput
    \/ EdEscape

EdSpec == EdInit /\ [][EdNext]_vars

(***************************************************************************)
(* A number typed: input applied, any number of times, to an empty NumLit  *)
(* focus, at the top level and inside a quote, in either build.  The       *)
(* accumulator is an i64, so the states are finite without a bound.        *)
(***************************************************************************)
NumKeys == {"0", "7", "9", "a"}

NumInit ==
    /\ cursor \in {empty_num_lit, insert(empty_quote, empty_num_lit)}
    /\ build \in {"debug", "release"}
    /\ program = <<>>
    /\ vm = vm_new
    /\ trace = <<>>
    /\ status = "editing"

NumInput == \E ch \in NumKeys : InputChar(ch)

NumNext == NumInput

NumSpec == NumInit /\ [][NumNext]_vars

(***************************************************************************)
(* The shell (shell.rs): the cursor of a Shell, which starts empty and is  *)
(* changed by handle_key_event only.  One action per mode handler; each    *)
(* draws a key event and applies the whole handler to the cursor.          *)
(***************************************************************************)
KeyLeft == [k |-> "Left"]
KeyRight == [k |-> "Right"]
KeyUp == [k |-> "Up"]
KeyDown == [k |-> "Down"]
KeyBackspace == [k |-> "Backspace"]
KeyEnter == [k |-> "Enter"]
KeyChar(c) == [k |-> "Char", c |-> c]

KeyEvent(code, modifiers) == [code |-> code, modifiers |-> modifiers]

\* char::is_whitespace, on the characters typed
is_whitespace(c) == c \in {" ", "\t", "\n"}

\* a key of Normal mode that starts a number
handle_key_event_normal_num(c, event) ==
    IF event.modifiers = {}
    THEN CASE event.code = KeyLeft -> move_left(c)
           [] event.code = KeyRight -> move_right(c)
           [] event.code = KeyUp -> move_up(c)
           [] event.code = KeyBackspace -> delete_before(c)
           [] event.code = KeyChar("i") -> insert(c, empty_num_lit)
           [] event.code = KeyChar("\"") -> insert(c, empty_str_lit)
           [] event.code = KeyChar("{") -> insert(c, empty_quote)
           [] event.code \in {KeyChar("}"), KeyDown} -> move_out(c)
           [] OTHER -> c
    ELSE c

handle_key_event_normal(c, event) ==
    IF event.modifiers = {}
    THEN CASE event.code = KeyLeft -> move_left(c)
           [] event.code = KeyRight -> move_right(c)
           [] event.code = KeyUp -> move_up(c)
           [] event.code = KeyBackspace -> delete_before(c)
           [] event.code = KeyChar("i") -> insert(c, empty_ident)
           [] event.code = KeyChar("\"") -> insert(c, empty_str_lit)
           [] event.code = KeyChar("{") -> insert(c, empty_quote)
           [] event.code \in {KeyChar("}"), KeyDown} -> move_out(c)
           [] OTHER -> c
    ELSE c

handle_key_event_ident(c, event) ==
    IF event.modifiers = {} /\ event.code.k = "Char"
    THEN IF is_whitespace(event.code.c) THEN escape_to_normal(c)
         ELSE input(c, event.code.c)
    ELSE c

\* a string literal ends at whitespace, as an identifier does
handle_key_event_strlit_ws(c, event) ==
    IF event.modifiers = {} /\ event.code.k = "Char"
    THEN IF is_whitespace(event.code.c) THEN escape_to_normal(c)
         ELSE input(c, event.code.c)
    ELSE c

handle_key_event_strlit(c, event) ==
    IF event.modifiers = {} /\ event.code.k = "Char"
    THEN IF event.code.c = "\"" THEN escape_to_normal(c)
         ELSE input(c, event.code.c)
    ELSE c

\* the match has no arm for Mode::NumLit, a mode no key event leads to
handle_key_event(c, event) ==
    CASE mode(c) = "Normal" -> handle_key_event_normal(c, event)
      [] mode(c) = "Ident" -> handle_key_event_ident(c, event)
      [] mode(c) = "StrLit" -> handle_key_event_strlit(c, event)

\* The calls of the operations that panic on some focus (insert,
\* delete_before, input, program), each with the cursor it is made on.
Call(op, c) == [op |-> op, on |-> c]

\* move_out calls program() on the focus of the innermost quote
RECURSIVE move_out_calls(_)
move_out_calls(c) ==
    IF c.v # "Quote" THEN {}
    ELSE IF c.cursor.v = "Quote" THEN move_out_calls(c.cursor)
         ELSE {Call("program", c.cursor)}

handle_key_event_normal_calls(c, event) ==
    IF event.modifiers = {}
    THEN CASE event.code = KeyBackspace -> {Call("delete_before", c)}
           [] event.code \in {KeyChar("i"), KeyChar("\""), KeyChar("{")} ->
                 {Call("insert", c)}
           [] event.code \in {KeyChar("}"), KeyDown} -> move_out_calls(c)
           [] OTHER -> {}
    ELSE {}

handle_key_event_ident_calls(c, event) ==
    IF event.modifiers = {} /\ event.code.k = "Char"
          /\ ~is_whitespace(event.code.c)
    THEN {Call("input", c)}
    ELSE {}

handle_key_event_strlit_calls(c, event) ==
    IF event.modifiers = {} /\ event.code.k = "Char" /\ event.code.c # "\""
    THEN {Call("input", c)}
    ELSE {}

\* every mode is handled as Normal mode is
handle_key_event_calls_modeless(c, event) ==
    handle_key_event_normal_calls(c, event)

handle_key_event_calls(c, event) ==
    CASE mode(c) = "Normal" -> handle_key_event_normal_calls(c, event)
      [] mode(c) = "Ident" -> handle_key_event_ident_calls(c, event)
      [] mode(c) = "StrLit" -> handle_key_event_strlit_calls(c, event)

\* Shell::layout, run by render before every key event: program() is
\* called when the mode is Normal
layout_calls(c) ==
    IF mode(c) = "Normal" THEN {Call("program", c)} ELSE {}

\* the keys pressed: the keys the handlers name and a key they do not name,
\* with and without a modifier
ShChars == {"i", "\"", "{", "}", " "}

KeyCodes ==
    {KeyLeft, KeyRight, KeyUp, KeyDown, KeyBackspace, KeyEnter}
    \cup {KeyChar(c) : c \in ShChars}

KeyEvents ==
    {KeyEvent(code, {}) : code \in KeyCodes}
    \cup {KeyEvent(code, {"CONTROL"}) : code \in {KeyChar("i"), KeyChar(" ")}}

\* Shell::new
ShInit ==
    /\ cursor = empty
    /\ build = "debug"
    /\ program = <<>>
    /\ vm = vm_new
    /\ trace = <<>>
    /\ status = "editing"

\* the handler has left the cursor c
ShStep(c) ==
    /\ EdStep(c)
    /\ cursor_size(c) <= MaxExprs
    /\ cursor_chars(c) <= MaxTyped

\* handle_key_event on the key event
ShKey(event) == ShStep(handle_key_event(cursor, event))

ShKeyNormal == mode(cursor) = "Normal" /\ \E event \in KeyEvents : ShKey(event)

ShKeyIdent == mode(cursor) = "Ident" /\ \E event \in KeyEvents : ShKey(event)

ShKeyStrLit == mode(cursor) = "StrLit" /\ \E event \in KeyEvents : ShKey(event)

ShNext == ShKeyNormal \/ ShKeyIdent \/ ShKeyStrLit

ShSpec == ShInit /\ [][ShNext]_vars

(***************************************************************************)
(* Properties.                                                             *)
(***************************************************************************)

\* C1: all-or-nothing: when a pop or a coercion of a primitive fails, the
\* stack after the primitive is the stack before it with one Poison on top.
C1_AllOrNothing ==
    [][(EvalIdent /\ prim_arm(vm, trace, Consumed.s, 0).res = "None")
         => vm'.stack = Append(vm.stack, new_poison)]_vars

\* C2: evaluation is failure-soft: no precondition failure of a primitive
\* aborts the evaluation (no evaluation ends in a panic).
C2_FailureSoft == status # "panic"

\* C3: evaluation of every program runs to completion: no evaluation
\* recurses until the call stack is exhausted.
C3_RunsToCompletion == status # "overflow"

\* C4: evaluating `n iota {inc} map`, the trace entry of the position before
\* `inc` inside the quote holds n snapshots with tops 0..n-1 in order, and the
\* entry of the position after `inc` holds n snapshots with tops 1..n.
C4_TraceUnderMap ==
    \A n \in 0..MaxIota :
        program = MapProgram(n) =>
            /\ status \notin {"panic", "overflow"}
            /\ status = "done" =>
                 /\ Len(TraceAt(KeyBeforeInc)) = n
                 /\ Len(TraceAt(KeyAfterInc)) = n
                 /\ \A i \in 1..n :
                      /\ TraceAt(KeyBeforeInc)[i].stack = <<new_num(i - 1)>>
                      /\ TraceAt(KeyAfterInc)[i].stack = <<new_num(i)>>

C4_Witness ==
    /\ program = MapProgram(3)
    /\ status = "done"
    /\ Len(TraceAt(KeyBeforeInc)) = 3
    /\ TraceAt(KeyAfterInc)[3].stack = <<new_num(3)>>

\* C5: once the evaluation of a program of n expressions has ended, for every
\* k in 0..n the trace entry of Edge(k, n-k) holds exactly one snapshot.
C5_TopLevelTrace ==
    Ended => \A k \in 0..Len(program) :
                 Len(TraceAt(ShapeEdge(k, Len(program) - k))) = 1

\* C6: consuming a Quote expression, at any nesting depth, pushes exactly one
\* Quote value on an otherwise unchanged stack, and the captured cursor's
\* innermost focus is Edge([], body): the snapshots taken before and after
\* the Quote expression pair up one to one and differ by that value only.
C6_QuoteNotExecuted ==
    \A key \in DOMAIN trace :
        LET e == ExprAfter(program, key)
            after == ShapeRight(key)
        IN (/\ e # None
            /\ e[1].e = "Quote"
            /\ key.v = "Edge" => Len(cursor.head) > key.head)
           => /\ Len(TraceAt(after)) = Len(trace[key])
              /\ \A i \in 1..Len(trace[key]) :
                   LET b == trace[key][i]
                       a == TraceAt(after)[i]
                   IN /\ a.parent = b.parent
                      /\ Len(a.stack) = Len(b.stack) + 1
                      /\ Front(a.stack) = b.stack
                      /\ Last(a.stack).k = "Quote"
                      /\ Innermost(Last(a.stack).cursor)
                           = Edge(<<>>, e[1].body)

\* a Quote expression inside a quote has been consumed by a nested evaluation
C6_Witness ==
    \E key \in DOMAIN trace :
        /\ key.v = "Quote"
        /\ ExprAfter(program, key) = Some(Q_inc)
        /\ ShapeRight(key) \in DOMAIN trace
        /\ Last(trace[ShapeRight(key)][1].stack).k = "Quote"

\* C7: dup, del and flip on an empty stack leave exactly one Poison and the
\* evaluation goes on.
C7_EmptyStackPoison ==
    [][(EvalIdent /\ vm.stack = <<>> /\ Consumed.s \in {N_dup, N_del, N_flip})
         => (vm'.stack = <<new_poison>> /\ status' = "running")]_vars

C7_Witness ==
    /\ program = <<ExprIdent(N_dup)>>
    /\ status = "done"
    /\ vm.stack = <<new_poison>>

\* C8: an identifier that is not in the primitive table pushes exactly one
\* Poison and leaves the values already on the stack unchanged.
C8_UnknownIdentifier ==
    [][(EvalIdent /\ Consumed.s \notin PrimTable)
         => (vm'.stack = Append(vm.stack, new_poison) /\ status' = "running")]_vars

C8_Witness ==
    /\ program = <<ExprNumLit(1), ExprStrLit(<<"a">>), ExprIdent(N_empty)>>
    /\ status = "done"
    /\ vm.stack = <<new_num(1), new_str(<<"a">>), new_poison>>

\* C9: evaluating `a b +` from the empty stack ends with exactly one Number,
\* a + b.
C9_Addition ==
    \A a \in Nums, b \in Nums :
        program = <<ExprNumLit(a), ExprNumLit(b), ExprIdent(N_add)>> =>
            /\ status \notin {"panic", "overflow"}
            /\ status = "done" => vm.stack = <<[k |-> "Num", n |-> a + b]>>

C9_Witness ==
    /\ program = <<ExprNumLit(3), ExprNumLit(4), ExprIdent(N_add)>>
    /\ status = "done"
    /\ vm.stack = <<[k |-> "Num", n |-> 7]>>

\* C10: evaluating `lo hi irange` ends with exactly one list, holding lo,
\* lo+1, .., hi in increasing order, empty when lo > hi.
C10_IRange ==
    \A lo \in Nums, hi \in Nums :
        program = <<ExprNumLit(lo), ExprNumLit(hi), ExprIdent(N_irange)>> =>
            /\ status \notin {"panic", "overflow"}
            /\ status = "done" =>
                 /\ Len(vm.stack) = 1
                 /\ vm.stack[1].k = "List"
                 /\ Len(vm.stack[1].items) = (IF lo > hi THEN 0 ELSE hi - lo + 1)
                 /\ \A i \in 1..Len(vm.stack[1].items) :
                      vm.stack[1].items[i] = [k |-> "Num", n |-> lo + i - 1]

C10_Witness ==
    /\ program = <<ExprNumLit(1), ExprNumLit(5), ExprIdent(N_irange)>>
    /\ status = "done"
    /\ vm.stack = <<new_list(<<new_num(1), new_num(2), new_num(3), new_num(4),
                               new_num(5)>>)>>

\* from occurs in s
Occurs(s, from) ==
    \E i \in 1..(Len(s) + 1) :
       /\ i + Len(from) - 1 <= Len(s)
       /\ SubSeq(s, i, i + Len(from) - 1) = from

Chars(s) == {s[i] : i \in 1..Len(s)}

IsReplaceProgram ==
    /\ Len(program) = 4
    /\ \A i \in 1..3 : program[i].e = "StrLit"
    /\ program[4] = ExprIdent(N_s)

\* hay with every character equal to ch replaced by the string rep
RECURSIVE EachChar(_, _, _)
EachChar(hay, ch, rep) ==
    IF hay = <<>> THEN <<>>
    ELSE (IF Head(hay) = ch THEN rep ELSE <<Head(hay)>>)
             \o EachChar(Tail(hay), ch, rep)

\* what C11 says of the string out that replaces ndl by rep in hay
ReplaceResult(hay, ndl, rep, out) ==
    /\ (hay = <<"a", "b">> /\ ndl = <<"b">> /\ rep = <<"c">>)
         => out = <<"a", "c">>
    /\ ~Occurs(hay, ndl) => out = hay
    /\ ndl = rep => out = hay
    /\ (ndl # <<>> /\ rep # <<>> /\ Chars(rep) \cap Chars(ndl) = {})
         => ~Occurs(out, ndl)
    /\ Len(ndl) = 1 => out = EachChar(hay, ndl[1], rep)
    /\ (ndl # <<>> /\ rep = <<>>) => Len(out) <= Len(hay)

\* C11: the primitive s on haystack, needle, replacement leaves exactly one
\* string, the haystack with every occurrence of the needle replaced: it is
\* "ac" for "ab" "b" "c", it is the haystack when the needle does not occur
\* or equals the replacement, it has the replacement in the place of each
\* character equal to a one-character needle, and no occurrence of the needle
\* is left when the replacement is non-empty and shares no character with it.
C11_Replace ==
    (status = "done" /\ IsReplaceProgram) =>
        /\ Len(vm.stack) = 1
        /\ as_string(vm.stack[1]) # None
        /\ ReplaceResult(program[1].s, program[2].s, program[3].s,
                         as_string(vm.stack[1])[1])

C11_Witness ==
    /\ status = "done"
    /\ program = ReplaceProgram(<<"a", "b">>, <<"b">>, <<"c">>)
    /\ vm.stack = <<new_str(<<"a", "c">>)>>

\* the innermost focus of c is an Edge with expressions on both sides
NotAtBoundary(c) ==
    /\ Innermost(c).v = "Edge"
    /\ Innermost(c).head # <<>>
    /\ Innermost(c).tail # <<>>

\* C12: on a cursor whose innermost focus is an Edge with a non-empty head
\* and a non-empty tail, move_right followed by move_left, and move_left
\* followed by move_right, give back the cursor, equal at every level.
C12_MoveRoundTrip ==
    [][NotAtBoundary(cursor) =>
         /\ EdMoveRight => move_left(cursor') = cursor
         /\ EdMoveLeft => move_right(cursor') = cursor]_vars

C12_Witness ==
    /\ status = "editing"
    /\ cursor.v = "Quote"
    /\ NotAtBoundary(cursor)
    /\ Innermost(cursor).head # Innermost(cursor).tail

\* c with every expression replaced by e, every buffer by buf (the caret at
\* its end) and every accumulator by num
RECURSIVE Relabel(_, _, _, _)
Relabel(c, e, buf, num) ==
    CASE c.v = "Edge" ->
            Edge([i \in 1..Len(c.head) |-> e], [i \in 1..Len(c.tail) |-> e])
      [] c.v = "Quote" ->
            Quote([i \in 1..Len(c.head) |-> e], Relabel(c.cursor, e, buf, num),
                  [i \in 1..Len(c.tail) |-> e])
      [] c.v = "Ident" ->
            Ident([i \in 1..Len(c.head) |-> e], Len(buf), buf,
                  [i \in 1..Len(c.tail) |-> e])
      [] c.v = "StrLit" ->
            StrLit([i \in 1..Len(c.head) |-> e], Len(buf), buf,
                   [i \in 1..Len(c.tail) |-> e])
      [] c.v = "NumLit" ->
            NumLit([i \in 1..Len(c.head) |-> e], num,
                   [i \in 1..Len(c.tail) |-> e])

\* the same variant and the same lengths of head and tail at every level
RECURSIVE SameLayout(_, _)
SameLayout(c1, c2) ==
    /\ c1.v = c2.v
    /\ Len(c1.head) = Len(c2.head)
    /\ Len(c1.tail) = Len(c2.tail)
    /\ c1.v = "Quote" => SameLayout(c1.cursor, c2.cursor)

\* C13: shape depends only on the variant and on the lengths of head and
\* tail at each level: a cursor and the cursor with the same variants and
\* lengths but other expressions, buffers, carets and accumulators have the
\* same shape.
C13_ShapeIgnoresContents ==
    \A e \in {S_e, X_a, ExprQuote(<<X_a, S_e>>)} :
       \A buf \in {<<>>, <<"b", "b", "b">>} :
          \A num \in {None, Some(5)} :
             /\ SameLayout(cursor, Relabel(cursor, e, buf, num))
             /\ shape(Relabel(cursor, e, buf, num)) = shape(cursor)

C13_Witness ==
    /\ cursor.v = "Quote"
    /\ cursor.head # <<>>
    /\ Innermost(cursor).v = "Ident"
    /\ Innermost(cursor).s # <<>>
    /\ Relabel(cursor, S_e, <<>>, None) # cursor

\* n copies of x
Repeat(x, n) == [i \in 1..n |-> x]

\* the list that holds every item of elems as often as its multiplicity
RECURSIVE Expand(_)
Expand(elems) ==
    IF elems = <<>> THEN <<>>
    ELSE Repeat(Head(elems)[1], Head(elems)[2]) \o Expand(Tail(elems))

\* the loop iteration about to run applies prim to at least n operands
Applies(prim, n) ==
    /\ status = "running"
    /\ next_expr(cursor) # None
    /\ Consumed = ExprIdent(prim)
    /\ Len(vm.stack) >= n

\* the operand at depth d of the stack (0 is the top)
Operand(d) == vm.stack[Len(vm.stack) - d]

\* the stack after the step holds the set r in place of n operands
LeavesSet(n, r) ==
    /\ status' = "running"
    /\ vm'.stack = Append(SubSeq(vm.stack, 1, Len(vm.stack) - n), new_set(r))

\* C14: from_vec is idempotent: the set made from a list, expanded into the
\* list that repeats every item by its multiplicity and made a set again,
\* is the same vector of (item, multiplicity) pairs.
C14_FromListIdempotent ==
    [][(EvalIdent /\ Applies(N_set, 1) /\ as_list(Operand(0)) # None)
         => /\ LeavesSet(1, from_vec(as_list(Operand(0))[1]).set)
            /\ from_vec(Expand(Last(vm'.stack).set.elems)).set
                 = Last(vm'.stack).set]_vars

C14_Witness ==
    /\ status = "done"
    /\ program = <<ExprStrLit(<<"b", "a", "b">>), ExprIdent(N_set)>>
    /\ vm.stack = <<new_set(Polyset(<<<<new_char("a"), 1>>,
                                      <<new_char("b"), 2>>>>))>>

HasKey(set, x) == \E i \in 1..Len(set.elems) : set.elems[i][1] = x

\* the multiplicity of x in set, 0 when x is no key of it
Mult(set, x) ==
    IF HasKey(set, x)
    THEN set.elems[CHOOSE i \in 1..Len(set.elems) : set.elems[i][1] = x][2]
    ELSE 0

KeysOf(set) == {set.elems[i][1] : i \in 1..Len(set.elems)}

\* both operands of the primitive about to run are sets, or lists read as
\* sets
SetOperands ==
    /\ as_set(Operand(0)) # None
    /\ as_set(Operand(1)) # None

SetA == as_set(Operand(0))[1]
SetB == as_set(Operand(1))[1]

\* C15: join is commutative, a key is in the result exactly when it is in
\* both sets, and its multiplicity is the product of its multiplicities in
\* the two sets.
C15_Join ==
    [][(EvalIdent /\ Applies(N_join, 2) /\ SetOperands)
         => /\ status' = "running"
            /\ Last(vm'.stack).k = "Set"
            /\ SubSeq(vm'.stack, 1, Len(vm'.stack) - 1)
                 = SubSeq(vm.stack, 1, Len(vm.stack) - 2)
            /\ KeysOf(Last(vm'.stack).set) = KeysOf(SetA) \cap KeysOf(SetB)
            /\ \A x \in KeysOf(SetA) \cup KeysOf(SetB) :
                  Mult(Last(vm'.stack).set, x) = Mult(SetA, x) * Mult(SetB, x)
            /\ polyset_join(SetA, SetB) = polyset_join(SetB, SetA)]_vars

\* the vector is strictly increasing by item and no multiplicity is 0
RepOK(set) ==
    /\ \A i \in 1..(Len(set.elems) - 1) :
          value_lt(set.elems[i][1], set.elems[i + 1][1])
    /\ \A i \in 1..Len(set.elems) : set.elems[i][2] # 0

\* C16: the representation invariant of Polyset: whatever from_vec, union
\* and join have built, the items of a set are strictly increasing and
\* every multiplicity is a nonzero integer.
C16_PolysetInvariant ==
    \A i \in 1..Len(vm.stack) :
       vm.stack[i].k = "Set" => RepOK(vm.stack[i].set)

\* C17: union is multiset addition: the multiplicity of every key in the
\* union is the sum of its multiplicities in the two sets (0 where it is
\* absent), and union is commutative.
C17_Union ==
    [][(EvalIdent /\ Applies(N_union, 2) /\ SetOperands)
         => /\ status' = "running"
            /\ Last(vm'.stack).k = "Set"
            /\ SubSeq(vm'.stack, 1, Len(vm'.stack) - 1)
                 = SubSeq(vm.stack, 1, Len(vm.stack) - 2)
            /\ KeysOf(Last(vm'.stack).set) = KeysOf(SetA) \cup KeysOf(SetB)
            /\ \A x \in KeysOf(SetA) \cup KeysOf(SetB) :
                  Mult(Last(vm'.stack).set, x) = Mult(SetA, x) + Mult(SetB, x)
            /\ polyset_union(SetA, SetB) = polyset_union(SetB, SetA)]_vars

\* r is c with its innermost Edge focus replaced by the fragment f, the head
\* of f after the head of the focus and the tail of f before its tail, and
\* with every Quote level around that focus as it was
RECURSIVE InsertedAt(_, _, _)
InsertedAt(c, f, r) ==
    IF c.v = "Quote"
    THEN /\ r.v = "Quote"
         /\ r.head = c.head
         /\ r.tail = c.tail
         /\ InsertedAt(c.cursor, f, r.cursor)
    ELSE /\ r.v = f.v
         /\ r.head = c.head \o f.head
         /\ r.tail = f.tail \o c.tail
         /\ f.v \in {"Ident", "StrLit"} => (r.n = f.n /\ r.s = f.s)
         /\ f.v = "NumLit" => r.n = f.n
         /\ f.v = "Quote" => r.cursor = f.cursor

\* C18: insert on a cursor whose innermost focus is Edge(head, tail) puts
\* the fragment's variant in the place of that focus, with head ++
\* fragment.head and fragment.tail ++ tail, for each of the five variants of
\* fragment, and leaves the enclosing Quote levels unchanged.
C18_Insert ==
    [][(mode(cursor) = "Normal" /\ EdInsert)
         => \E f \in Fragments :
               /\ cursor_size(cursor) + cursor_size(f) <= MaxExprs
               /\ InsertedAt(cursor, f, cursor')]_vars

\* a fragment with a head has been inserted after an expression, and one
\* with a tail inside a quote
C18_Witness ==
    \/ /\ cursor.v = "Ident"
       /\ cursor.head = <<S_e, X_a>>
       /\ cursor.tail = <<>>
    \/ /\ cursor.v = "Quote"
       /\ cursor.cursor.v = "NumLit"
       /\ cursor.cursor.tail = <<S_e>>

\* the expressions that leaving the focus c adds to head
Committed(c) ==
    CASE c.v = "Ident" -> <<ExprIdent(c.s)>>
      [] c.v = "StrLit" -> <<ExprStrLit(c.s)>>
      [] c.v = "NumLit" -> IF c.n = None THEN <<>> ELSE <<ExprNumLit(c.n[1])>>
      [] c.v = "Edge" -> <<>>

\* r is c with its innermost focus made an Edge that has taken the literal
\* in progress into head, and with every Quote level as it was
RECURSIVE EscapedAt(_, _)
EscapedAt(c, r) ==
    IF c.v = "Quote"
    THEN /\ r.v = "Quote"
         /\ r.head = c.head
         /\ r.tail = c.tail
         /\ EscapedAt(c.cursor, r.cursor)
    ELSE /\ r.v = "Edge"
         /\ r.head = c.head \o Committed(c)
         /\ r.tail = c.tail

\* C19: escape_to_normal ends in Normal mode: an Ident or StrLit focus adds
\* its buffer to head as one expression, also when the buffer is empty, a
\* NumLit focus adds a number only if a digit was entered, tail is
\* unchanged and an Edge focus is left as it is.
C19_EscapeToNormal ==
    [][EdEscape => (mode(cursor') = "Normal" /\ EscapedAt(cursor, cursor'))]_vars

\* an empty identifier has been committed next to a number, inside a quote
C19_Witness ==
    /\ cursor.v = "Quote"
    /\ cursor.cursor.v = "Edge"
    /\ Len(cursor.cursor.head) = 2
    /\ cursor.cursor.head[1].e = "NumLit"
    /\ cursor.cursor.head[2] = ExprIdent(<<>>)

\* the last expression before the focus c is a quote
AfterQuote(c) ==
    /\ c.v = "Edge"
    /\ c.head # <<>>
    /\ Last(c.head).e = "Quote"

\* r is c after move_up entered the quote before its innermost Edge focus,
\* with the focus before the body (atStart) or after it; r is c when there
\* is no such quote
RECURSIVE EnteredAt(_, _, _)
EnteredAt(c, r, atStart) ==
    IF c.v = "Quote"
    THEN /\ r.v = "Quote"
         /\ r.head = c.head
         /\ r.tail = c.tail
         /\ EnteredAt(c.cursor, r.cursor, atStart)
    ELSE IF AfterQuote(c)
    THEN r = Quote(Front(c.head),
                   IF atStart THEN Edge(<<>>, Last(c.head).body)
                   ELSE Edge(Last(c.head).body, <<>>),
                   c.tail)
    ELSE r = c

\* C20: move_up on an Edge focus whose last head element is Quote(body)
\* yields Quote(head without it, Edge([], body), tail), the focus at the
\* start of the quote; in every other Edge case the cursor is unchanged.
C20_MoveUpToStart ==
    [][(EdMoveUp /\ mode(cursor) = "Normal")
         => EnteredAt(cursor, cursor', TRUE)]_vars

\* C20, amended: move_up yields Quote(head without it, Edge(body, []),
\* tail), the focus at the end of the quote with the whole body before it;
\* in every other Edge case the cursor is unchanged.
C20_MoveUpToEnd ==
    [][(EdMoveUp /\ mode(cursor) = "Normal")
         => EnteredAt(cursor, cursor', FALSE)]_vars

\* a quote with a body has been entered
C20_Witness ==
    /\ cursor.v = "Quote"
    /\ cursor.cursor = Edge(<<X_a>>, <<>>)
    /\ cursor.tail # <<>>

\* r is c with its deepest Quote level replaced by an Edge one level up that
\* has the quote of the left focus as the last expression before it, and
\* with every Quote level around it as it was; r is c when c is no Quote
RECURSIVE CollapsedAt(_, _)
CollapsedAt(c, r) ==
    IF c.v # "Quote" THEN r = c
    ELSE IF c.cursor.v = "Quote"
    THEN /\ r.v = "Quote"
         /\ r.head = c.head
         /\ r.tail = c.tail
         /\ CollapsedAt(c.cursor, r.cursor)
    ELSE /\ r.v = "Edge"
         /\ r.head = c.head \o <<ExprQuote(c.cursor.head \o c.cursor.tail)>>
         /\ r.tail = c.tail

\* C21: move_out undoes move_up and collapses innermost-first: on a Normal
\* mode cursor whose innermost Edge has a Quote as the last element of head,
\* move_up followed by move_out gives back the cursor; move_out on nested
\* Quote foci removes the deepest Quote level only, and on a cursor that is
\* no Quote it changes nothing.
C21_MoveOutInverse ==
    [][/\ (mode(cursor) = "Normal" /\ AfterQuote(Innermost(cursor))
            /\ EdMoveUp)
          => (mode(cursor') = "Normal" /\ move_out(cursor') = cursor)
       /\ ((mode(cursor) = "Normal" \/ cursor.v # "Quote") /\ EdMoveOut)
          => CollapsedAt(cursor, cursor')]_vars

\* the focus is after a quote with a body, inside a quote: move_out has
\* collapsed the deepest of two levels, and move_up can enter again
C21_Witness ==
    /\ status = "editing"
    /\ cursor.v = "Quote"
    /\ AfterQuote(cursor.cursor)
    /\ Last(cursor.cursor.head).body # <<>>

\* r has the Quote levels of c, each with the head and the tail it has in c
RECURSIVE SameLevels(_, _)
SameLevels(c, r) ==
    IF c.v = "Quote"
    THEN /\ r.v = "Quote"
         /\ r.head = c.head
         /\ r.tail = c.tail
         /\ SameLevels(c.cursor, r.cursor)
    ELSE r.v # "Quote"

\* what C22 says of the key ch pressed on the innermost focus f: g is the
\* innermost focus afterwards
TypedAt(f, ch, g) ==
    /\ (f.v = "Edge" /\ ch = "i") => g = Ident(f.head, 0, <<>>, f.tail)
    /\ (f.v = "Edge" /\ ch = "\"") => g = StrLit(f.head, 0, <<>>, f.tail)
    /\ (f.v = "Ident" /\ ch # " ")
         => g = Ident(f.head, Len(f.s) + 1, f.s \o <<ch>>, f.tail)
    /\ (f.v = "Ident" /\ ch = " ")
         => g = Edge(f.head \o <<ExprIdent(f.s)>>, f.tail)
    /\ (f.v = "StrLit" /\ ch # "\"")
         => g = StrLit(f.head, Len(f.s) + 1, f.s \o <<ch>>, f.tail)
    /\ (f.v = "StrLit" /\ ch = "\"")
         => g = Edge(f.head \o <<ExprStrLit(f.s)>>, f.tail)

\* the keys of a token: the key that starts one, and every character key
\* while one is typed
TokenKey(f, ch) == f.v \in {"Ident", "StrLit"} \/ ch \in {"i", "\""}

\* C22: typing a token through the shell, from a Normal mode state with the
\* innermost focus Edge(head, tail): the key i starts an identifier with an
\* empty buffer between head and tail, each non-whitespace character after
\* it is added at the end of the buffer, and whitespace ends in Edge(head ++
\* [Identifier(the characters typed, in order)], tail); the key " starts a
\* string literal, each character other than " (whitespace too) is added at
\* the end of its buffer, and " ends in Edge(head ++ [StringLiteral(the
\* characters typed)], tail).  The enclosing Quote levels stay as they are.
C22_TypeToken ==
    [][\A ch \in ShChars :
          (TokenKey(Innermost(cursor), ch) /\ ShKey(KeyEvent(KeyChar(ch), {})))
             => /\ SameLevels(cursor, cursor')
                /\ TypedAt(Innermost(cursor), ch, Innermost(cursor'))]_vars

\* an identifier and a string literal of two characters have been typed
\* between two expressions and inside a quote
C22_Witness ==
    \/ /\ cursor.v = "Quote"
       /\ cursor.cursor.v = "Edge"
       /\ cursor.cursor.head = <<ExprIdent(<<"\"", "i">>)>>
    \/ /\ cursor.v = "Edge"
       /\ Len(cursor.head) = 2
       /\ cursor.head[2] = ExprStrLit(<<" ", "i">>)
       /\ cursor.tail # <<>>

\* the higher-order primitive prim finds its operands on the stack st: a
\* quote for collect, a list and a quote for map, a quote and a count that
\* is at most the number of values below them for under
HasOperands(prim, st) ==
    CASE prim = N_collect -> Len(st) >= 1 /\ as_quote(st[Len(st)]) # None
      [] prim = N_map ->
            /\ Len(st) >= 2
            /\ as_quote(st[Len(st)]) # None
            /\ as_list(st[Len(st) - 1]) # None
      [] prim = N_under ->
            /\ Len(st) >= 2
            /\ as_num(st[Len(st)]) # None
            /\ as_quote(st[Len(st) - 1]) # None
            /\ st[Len(st)].n \in 0..(Len(st) - 2)
      [] OTHER -> FALSE

\* the values of st that prim takes: its operands and, for under, the count
\* values below them that it sets aside
Taken(prim, st) ==
    CASE prim = N_collect -> 1
      [] prim = N_map -> 2
      [] prim = N_under -> 2 + st[Len(st)].n

TopOf(st, k) == SubSeq(st, Len(st) - k + 1, Len(st))

BelowTop(st, k) == SubSeq(st, 1, Len(st) - k)

\* the stack prim leaves on a VM that holds nothing but the values st
Isolated(prim, st) == prim_arm([parent |-> None, stack |-> st], <<>>, prim, 0).stack

\* prim, applied to st, has left r: the caller's values below the ones it
\* takes are in r as they were, and above them r holds what prim leaves when
\* there are no such values
ChildVMOnly(prim, st, r) ==
    r = BelowTop(st, Taken(prim, st)) \o Isolated(prim, TopOf(st, Taken(prim, st)))

\* an iteration of the evaluation applies one of the primitives of names to
\* operands it accepts, and the evaluation goes on
Applying(names) ==
    /\ status = "running"
    /\ next_expr(cursor) # None
    /\ Consumed.e = "Ident"
    /\ Consumed.s \in names
    /\ HasOperands(Consumed.s, vm.stack)
    /\ EvalIdent
    /\ status' = "running"

ApplyingUnder ==
    /\ status = "running"
    /\ next_expr(cursor) # None
    /\ Consumed = ExprIdent(N_under)
    /\ Len(vm.stack) >= 2
    /\ as_num(vm.stack[Len(vm.stack)]) # None
    /\ as_quote(vm.stack[Len(vm.stack) - 1]) # None
    /\ vm.stack[Len(vm.stack)].n >= 0
    /\ EvalIdent

\* what the quote q leaves when it runs on a VM that holds the values st
QuoteOn(st, q) ==
    eval_cursor([parent |-> None, stack |-> st], trace, q.cursor, 1).vm.stack

\* under with the count n and the quote q on the values st has left r: the
\* top n values of st are on top of r, in their order, above what q leaves
\* when it runs on the other values of st
RestoredAbove(st, q, n, r) ==
    r = QuoteOn(BelowTop(st, n), q) \o TopOf(st, n)

\* C24: under with the count n on a stack whose top n values below the count
\* and the quote are T runs the quote without T, and the stack then ends
\* with T, in the original order, above what the quote produced; with a
\* count larger than the number of values below the quote it yields Poison.
C24_Under ==
    [][ApplyingUnder =>
          IF vm.stack[Len(vm.stack)].n <= Len(vm.stack) - 2
          THEN status' = "running"
                 => RestoredAbove(BelowTop(vm.stack, 2),
                                  vm.stack[Len(vm.stack) - 1],
                                  vm.stack[Len(vm.stack)].n, vm'.stack)
          ELSE /\ status' = "running"
               /\ Last(vm'.stack) = new_poison]_vars

\* the stacks the quote q leaves when it runs on each of the elements i,
\* i + 1, ... of list alone, one after the other
RECURSIVE RunsFrom(_, _, _)
RunsFrom(list, q, i) ==
    IF i > Len(list) THEN <<>>
    ELSE QuoteOn(<<list[i]>>, q) \o RunsFrom(list, q, i + 1)

\* the stacks of the snapshots the step has added at the position key
AddedAt(key) ==
    [i \in 1..(Len(trace'[key]) - Len(TraceAt(key))) |->
        trace'[key][Len(TraceAt(key)) + i].stack]

\* C25: map over a list of n elements runs the quote n times, once for each
\* element in list order, each time on a new stack that holds that element
\* only (the position at the start of the quote is recorded n times, with
\* those stacks), and pushes one list: the stacks the runs leave, one after
\* the other in element order.
C25_Map ==
    [][Applying({N_map}) =>
          /\ vm'.stack =
                Append(BelowTop(vm.stack, 2),
                       new_list(RunsFrom(vm.stack[Len(vm.stack) - 1].items,
                                         vm.stack[Len(vm.stack)], 1)))
          /\ vm.stack[Len(vm.stack) - 1].items # <<>> =>
                AddedAt(shape(vm.stack[Len(vm.stack)].cursor))
                  = [i \in 1..Len(vm.stack[Len(vm.stack) - 1].items) |->
                       <<vm.stack[Len(vm.stack) - 1].items[i]>>]]_vars

\* {dup inc} has been mapped over 0 1 2
C25_Witness ==
    /\ status = "done"
    /\ MaxIota >= 3
    /\ program = <<ExprNumLit(0), ExprNumLit(3), ExprIdent(N_iota), Q_twice,
                   ExprIdent(N_map)>>
    /\ vm.stack = <<new_num(0),
                    new_list(<<new_num(0), new_num(1), new_num(1), new_num(2),
                               new_num(2), new_num(3)>>)>>

\* the focus f has a caret and a buffer
HasCaret(f) == f.v \in {"Ident", "StrLit"}

\* C26: in every state reached from an empty constructor by cursor
\* operations, the caret of an Ident or StrLit focus is at least 0 and at
\* most the length of the buffer; move_left with the caret at 0 and
\* move_right with the caret at the length of the buffer change nothing.
C26_CaretInBounds ==
    /\ [](HasCaret(Innermost(cursor))
            => /\ 0 <= Innermost(cursor).n
               /\ Innermost(cursor).n <= Len(Innermost(cursor).s))
    /\ [][HasCaret(Innermost(cursor)) =>
             /\ (Innermost(cursor).n = 0 /\ EdMoveLeft) => cursor' = cursor
             /\ (Innermost(cursor).n = Len(Innermost(cursor).s) /\ EdMoveRight)
                  => cursor' = cursor]_vars

\* the caret is back at 0 before a character of a literal inside a quote
C26_Witness ==
    /\ cursor.v = "Quote"
    /\ HasCaret(cursor.cursor)
    /\ cursor.cursor.n = 0
    /\ cursor.cursor.s # <<>>

\* the focus g is the focus f after the character ch went into its buffer
\* at the caret: the characters before the caret, ch, the characters from
\* the caret on, and the caret one further
InputAt(f, ch, g) ==
    /\ g.v = f.v
    /\ g.head = f.head
    /\ g.tail = f.tail
    /\ g.n = f.n + 1
    /\ Len(g.s) = Len(f.s) + 1
    /\ g.s[f.n + 1] = ch
    /\ \A i \in 1..f.n : g.s[i] = f.s[i]
    /\ \A i \in (f.n + 1)..Len(f.s) : g.s[i + 1] = f.s[i]

\* C27: input(c) on an Ident or StrLit focus with caret k and buffer b
\* yields the buffer b[0..k] ++ [c] ++ b[k..] and the caret k + 1, with head
\* and tail unchanged; on a Quote it applies to the innermost focus only.
C27_InputAtCaret ==
    [][\A ch \in Keys :
          (HasCaret(Innermost(cursor)) /\ EdInputChar(ch))
             => /\ SameLevels(cursor, cursor')
                /\ InputAt(Innermost(cursor), ch, Innermost(cursor'))]_vars

\* a character went into the buffer of a literal inside a quote, before
\* the character that was there
C27_Witness ==
    /\ cursor.v = "Quote"
    /\ HasCaret(cursor.cursor)
    /\ cursor.cursor.s = <<"7", "a">>
    /\ cursor.cursor.n = 1

\* the value of the decimal digit ch, and whether ch is one
DecimalDigits == {"0", "1", "2", "3", "4", "5", "6", "7", "8", "9"}

DecimalValue(ch) ==
    CASE ch = "0" -> 0 [] ch = "1" -> 1 [] ch = "2" -> 2 [] ch = "3" -> 3
      [] ch = "4" -> 4 [] ch = "5" -> 5 [] ch = "6" -> 6 [] ch = "7" -> 7
      [] ch = "8" -> 8 [] ch = "9" -> 9

\* the value of the digits entered into the accumulator n, none entered
\* when n is None
Entered(n) == IF n = None THEN 0 ELSE n[1]

\* the NumLit focus g is the focus f after the character ch: the digits
\* entered with ch after them when ch is a digit, f when it is not
DigitAt(f, ch, g) ==
    IF ch \in DecimalDigits
    THEN g = NumLit(f.head, Some(10 * Entered(f.n) + DecimalValue(ch)), f.tail)
    ELSE g = f

\* C28: on a NumLit focus, after the input of any sequence of characters the
\* accumulator is the decimal value of the digits among them, in order
\* (None when there is no digit), for digit sequences of every length; a
\* character that is no digit leaves the cursor unchanged.
C28_Accumulate ==
    [][\A ch \in NumKeys :
          (mode(cursor) = "NumLit" /\ InputChar(ch))
             => /\ status' # "panic"
                /\ SameLevels(cursor, cursor')
                /\ DigitAt(Innermost(cursor), ch, Innermost(cursor'))]_vars

\* the Edge focus g is the Edge focus f without the last expression of its
\* head, or f when its head is empty
DeletedAt(f, g) ==
    /\ g.v = "Edge"
    /\ g.tail = f.tail
    /\ IF f.head = <<>> THEN g.head = <<>>
       ELSE /\ Len(g.head) = Len(f.head) - 1
            /\ \A i \in 1..Len(g.head) : g.head[i] = f.head[i]

\* C29: delete_before on a cursor whose innermost focus is Edge(head, tail)
\* removes the last element of that head, and nothing else, when there is
\* one, and changes nothing when head is empty; tail and the head and tail
\* of every enclosing Quote level are unchanged.
C29_DeleteBefore ==
    [][(mode(cursor) = "Normal" /\ EdDeleteBefore)
         => /\ SameLevels(cursor, cursor')
            /\ DeletedAt(Innermost(cursor), Innermost(cursor'))]_vars

\* inside a quote that follows an expression, one expression is left before
\* the focus
C29_Witness ==
    /\ status = "editing"
    /\ cursor.v = "Quote"
    /\ cursor.head # <<>>
    /\ cursor.cursor.v = "Edge"
    /\ Len(cursor.cursor.head) = 1

\* the focus g is the focus f moved to the far left: before all the
\* expressions of an Edge, before the buffer of an Ident or StrLit
FarLeftOf(f, g) ==
    CASE f.v = "Edge" -> g = Edge(<<>>, f.head \o f.tail)
      [] f.v = "Ident" -> g = Ident(f.head, 0, f.s, f.tail)
      [] f.v = "StrLit" -> g = StrLit(f.head, 0, f.s, f.tail)
      [] f.v = "NumLit" -> g = f

\* C30: move_very_left on an Edge(head, tail) focus yields Edge([], head ++
\* tail), sets the caret of an Ident or StrLit focus to 0, changes nothing
\* on NumLit, acts on the innermost focus of a Quote and leaves the Quote
\* levels as they are; a second move_very_left changes nothing more.
C30_MoveVeryLeft ==
    [][EdMoveVeryLeft
         => /\ SameLevels(cursor, cursor')
            /\ FarLeftOf(Innermost(cursor), Innermost(cursor'))
            /\ move_very_left(cursor') = cursor']_vars

\* inside a quote the focus is before two different expressions
C30_Witness ==
    /\ status = "editing"
    /\ cursor.v = "Quote"
    /\ cursor.cursor.v = "Edge"
    /\ cursor.cursor.head = <<>>
    /\ Len(cursor.cursor.tail) = 2
    /\ cursor.cursor.tail[1] # cursor.cursor.tail[2]


\* ------------------------------------------------------------------------
\* C31

\* c with the buffer of its innermost Ident or StrLit focus replaced by buf
\* (the caret at its end); head and tail of every level are kept
RECURSIVE WithBuffer(_, _)
WithBuffer(c, buf) ==
    CASE c.v = "Quote" -> Quote(c.head, WithBuffer(c.cursor, buf), c.tail)
      [] c.v = "Ident" -> Ident(c.head, Len(buf), buf, c.tail)
      [] c.v = "StrLit" -> StrLit(c.head, Len(buf), buf, c.tail)
      [] OTHER -> c

Buffers == {<<>>, <<"a">>, <<"a", "b">>, <<"b", "a", "b">>}

OtherBuffers(c) == {buf \in Buffers : Len(buf) # Len(Innermost(c).s)}

InToken(c) == Innermost(c).v \in {"Ident", "StrLit"}

\* C31: the shape of a cursor records the length of the buffer,
\* so an Ident (or StrLit) cursor and the cursor with the same head and tail
\* but a buffer of another length have different shapes.
C31_ShapeRecordsBuffer ==
    InToken(cursor) =>
       \A buf \in OtherBuffers(cursor) :
          shape(WithBuffer(cursor, buf)) # shape(cursor)

\* C31, amended: the shape of an Ident (or StrLit) cursor records the lengths
\* of head and tail only: the cursor with the same head and tail but a
\* buffer of another length has the same shape, which is the variant with
\* the two lengths.
C31_ShapeDropsBuffer ==
    InToken(cursor) =>
       /\ shape(Innermost(cursor)) =
             [v |-> Innermost(cursor).v,
              head |-> Len(Innermost(cursor).head),
              tail |-> Len(Innermost(cursor).tail)]
       /\ \A buf \in OtherBuffers(cursor) :
             /\ WithBuffer(cursor, buf) # cursor
             /\ shape(WithBuffer(cursor, buf)) = shape(cursor)

C31_Witness ==
    /\ status = "editing"
    /\ cursor.v = "Ident"
    /\ cursor.s # <<>>
    /\ cursor.head # <<>>


\* ------------------------------------------------------------------------
\* C32

\* an iteration of the evaluation applies the primitive prim
Runs(prim) ==
    /\ status = "running"
    /\ next_expr(cursor) # None
    /\ Consumed = ExprIdent(prim)
    /\ EvalIdent

\* the top of st is a depth within the values below it
DepthOn(st) ==
    /\ st # <<>>
    /\ as_num(Last(st)) # None
    /\ Last(st).n \in 0..(Len(st) - 2)

\* the slot of the value at depth n (0 = top) in a stack of m values
SlotAt(m, n) == m - n

\* r is st with a copy of the value at depth n on top
CopiedAt(st, n, r) ==
    /\ Len(r) = Len(st) + 1
    /\ \A i \in 1..Len(st) : r[i] = st[i]
    /\ r[Len(r)] = st[SlotAt(Len(st), n)]

\* r is st with the value at depth n taken from its slot and put on top
MovedAt(st, n, r) ==
    /\ Len(r) = Len(st)
    /\ r[Len(r)] = st[SlotAt(Len(st), n)]
    /\ \A i \in 1..(Len(st) - 1) :
          r[i] = IF i < SlotAt(Len(st), n) THEN st[i] ELSE st[i + 1]

\* C32: with a depth n within the values below it (0 = top, counted after
\* the depth is popped), copy pushes a copy of the value at depth n and
\* leaves every other slot as it was, and move takes the value at depth n
\* from its slot and puts it on top, the other values keeping their order;
\* the stack grows by one for copy and keeps its size for move.
C32_CopyMove ==
    [][/\ (DepthOn(vm.stack) /\ Runs(N_copy)) =>
             /\ status' = "running"
             /\ CopiedAt(Front(vm.stack), Last(vm.stack).n, vm'.stack)
       /\ (DepthOn(vm.stack) /\ Runs(N_move)) =>
             /\ status' = "running"
             /\ MovedAt(Front(vm.stack), Last(vm.stack).n, vm'.stack)]_vars

C32_Witness ==
    /\ program = Distinct3 \o <<ExprNumLit(1), ExprIdent(N_move)>>
    /\ status = "done"
    /\ Len(vm.stack) = 3
    /\ vm.stack[1] = new_num(5)
    /\ vm.stack[3] = new_str(<<"a">>)


\* ------------------------------------------------------------------------
\* C33

\* the top of st is a number and the value below it a list
NumOnList(st) ==
    /\ Len(st) >= 2
    /\ as_num(Last(st)) # None
    /\ as_list(st[Len(st) - 1]) # None

\* the position an index i selects in a list of n values: i itself, or
\* n + i for a negative i
SplitPosition(n, i) == IF i < 0 THEN n + i ELSE i

\* r is below with the two parts of list at position at above it
SplitInto(below, list, at, r) ==
    /\ Len(r) = Len(below) + 2
    /\ SubSeq(r, 1, Len(below)) = below
    /\ {r[Len(r) - 1], r[Len(r)]} =
          {new_list(SubSeq(list, 1, at)),
           new_list(SubSeq(list, at + 1, Len(list)))}
    /\ \/ r[Len(r) - 1].items \o r[Len(r)].items = list
       \/ r[Len(r)].items \o r[Len(r) - 1].items = list

\* C33: splitat with index i on a list L of n values splits L at position i
\* when 0 <= i <= n and at position n + i when i is negative, pushing the
\* two parts, whose concatenation is L; an index outside the list after the
\* adjustment yields Poison and the evaluation goes on.
C33_SplitAt ==
    [][(NumOnList(vm.stack) /\ Runs(N_splitat)) =>
          /\ status' = "running"
          /\ IF SplitPosition(Len(vm.stack[Len(vm.stack) - 1].items),
                              Last(vm.stack).n)
                  \in 0..Len(vm.stack[Len(vm.stack) - 1].items)
             THEN SplitInto(BelowTop(vm.stack, 2),
                            vm.stack[Len(vm.stack) - 1].items,
                            SplitPosition(Len(vm.stack[Len(vm.stack) - 1].items),
                                          Last(vm.stack).n),
                            vm'.stack)
             ELSE vm'.stack = Append(BelowTop(vm.stack, 2), new_poison)]_vars


\* ------------------------------------------------------------------------
\* C34

Min(a, b) == IF a < b THEN a ELSE b

\* the number of values take keeps of a list of n values with count c
Kept(n, c) == IF c >= 0 THEN Min(c, n) ELSE Max(0, n + c)

\* C34: take with count c on a list L of n values pushes the first
\* min(c, n) values of L when c >= 0 and the first max(0, n + c) values when
\* c < 0 (all but the last |c|, floored at 0), in place of the two operands.
C34_Take ==
    [][(NumOnList(vm.stack) /\ Runs(N_take)) =>
          /\ status' = "running"
          /\ Len(vm'.stack) = Len(vm.stack) - 1
          /\ BelowTop(vm'.stack, 1) = BelowTop(vm.stack, 2)
          /\ Last(vm'.stack).k = "List"
          /\ Len(Last(vm'.stack).items) =
                Kept(Len(vm.stack[Len(vm.stack) - 1].items), Last(vm.stack).n)
          /\ \A i \in 1..Len(Last(vm'.stack).items) :
                Last(vm'.stack).items[i] = vm.stack[Len(vm.stack) - 1].items[i]]_vars

\* all but the last two of three, and a count below minus the length
C34_Witness ==
    /\ status = "done"
    /\ \/ /\ program = <<ExprStrLit(<<"a", "b", "c">>), ExprNumLit(0 - 2),
                         ExprIdent(N_take)>>
          /\ vm.stack = <<new_str(<<"a">>)>>
       \/ /\ program = <<ExprStrLit(<<"a">>), ExprNumLit(0 - 2),
                         ExprIdent(N_take)>>
          /\ vm.stack = <<new_str(<<>>)>>


\* ------------------------------------------------------------------------
\* C35

\* the sliding windows of k values of list, in order
Windows(list, k) ==
    IF k > Len(list) THEN <<>>
    ELSE [i \in 1..(Len(list) - k + 1) |-> new_list(SubSeq(list, i, i + k - 1))]

\* C35: frames with size k on a list L of n values pushes the list of all
\* sliding windows of k values in order: the n - k + 1 sublists
\* L[i..i+k] for i = 0..n-k when k <= n, the last of them ending at the last
\* value of L, and the empty list when k > n.
C35_Frames ==
    [][(/\ NumOnList(vm.stack)
        /\ Last(vm.stack).n >= 0
        /\ Runs(N_frames)) =>
          /\ status' = "running"
          /\ vm'.stack =
                Append(BelowTop(vm.stack, 2),
                       new_list(Windows(vm.stack[Len(vm.stack) - 1].items,
                                        Last(vm.stack).n)))]_vars


\* ------------------------------------------------------------------------
\* C36

\* no empty string of the list of strings pieces stands between two strings
\* that are not empty
NoEmptyBetweenWords(pieces) ==
    \A i \in 1..Len(pieces) :
       pieces[i] = new_str(<<>>) =>
          \/ \A j \in 1..i : pieces[j] = new_str(<<>>)
          \/ \A j \in i..Len(pieces) : pieces[j] = new_str(<<>>)

\* C36: words splits a string on runs of non-alphanumeric characters: a run
\* of several such characters in a row is one separator, so the list pushed
\* has no empty string between two words.
C36_Words ==
    [][(/\ vm.stack # <<>>
        /\ as_string(Last(vm.stack)) # None
        /\ Runs(N_words)) =>
          /\ status' = "running"
          /\ Len(vm'.stack) = Len(vm.stack)
          /\ Last(vm'.stack).k = "List"
          /\ NoEmptyBetweenWords(Last(vm'.stack).items)]_vars


\* ------------------------------------------------------------------------
\* C37

\* the five navigation operations
Navigates ==
    \/ EdMoveLeft
    \/ EdMoveRight
    \/ EdMoveVeryLeft
    \/ EdMoveUp
    \/ EdMoveOut

\* the operations that move the focus within its level
MovesWithinLevel ==
    \/ EdMoveLeft
    \/ EdMoveRight
    \/ EdMoveVeryLeft

\* C37: navigation never changes the program: on a cursor in Normal mode
\* moveLeft, moveRight, moveVeryLeft, moveUp and moveOut leave program() as
\* it was (and the cursor in Normal mode), and on every cursor moveLeft,
\* moveRight and moveVeryLeft leave the mode as it was.
C37_NavigationKeepsProgram ==
    [][/\ (mode(cursor) = "Normal" /\ Navigates) =>
             /\ status' = status
             /\ mode(cursor') = "Normal"
             /\ cursor_program(cursor') = cursor_program(cursor)
       /\ MovesWithinLevel =>
             /\ status' = status
             /\ mode(cursor') = mode(cursor)]_vars

\* a quote has been entered or left with expressions on both sides of it
C37_Witness ==
    /\ status = "editing"
    /\ mode(cursor) = "Normal"
    /\ Len(cursor_program(cursor)) >= 2
    /\ \E i \in 1..Len(cursor_program(cursor)) :
          /\ cursor_program(cursor)[i].e = "Quote"
          /\ cursor_program(cursor)[i].body # <<>>
    /\ Innermost(cursor).head # <<>>
    /\ Innermost(cursor).tail # <<>>


\* ------------------------------------------------------------------------
\* C38

\* the focus variants the operation of a call accepts without a panic, as
\* the contract of each operation names them
Compatible(call) ==
    CASE call.op \in {"insert", "delete_before"} ->
            Innermost(call.on).v = "Edge"
      [] call.op = "input" -> Innermost(call.on).v \in {"Ident", "StrLit"}
      [] call.op = "program" -> mode(call.on) = "Normal"

\* C38: no contract violation is reachable through the shell: in every
\* state reached from Shell::new() by key events, the render and the
\* handling of every next key event call insert and delete_before only on
\* an innermost Edge, input only on an innermost Ident or StrLit and
\* program() only in Normal mode.
C38_NoContractViolation ==
    /\ status = "editing"
    /\ \A call \in layout_calls(cursor) : Compatible(call)
    /\ \A event \in KeyEvents :
          \A call \in handle_key_event_calls(cursor, event) : Compatible(call)

\* inside a quote, in a token with a character typed: a key that inputs
C38_Witness ==
    /\ cursor.v = "Quote"
    /\ Innermost(cursor).v = "StrLit"
    /\ Innermost(cursor).s # <<>>
    /\ \E event \in KeyEvents :
          handle_key_event_calls(cursor, event) = {Call("input", cursor)}

\* ------------------------------------------------------------------------
\* C39

\* the mode named after the variant of the innermost focus that is no Quote
ModeOfVariant(v) == IF v = "Edge" THEN "Normal" ELSE v

\* C39: NumLit mode is unreachable through the shell: in every state
\* reached from Shell::new() by key events the mode is Normal, Ident or
\* StrLit, and it is the mode of the variant of the innermost focus that is
\* no Quote.
C39_NoNumLitMode ==
    /\ mode(cursor) \in {"Normal", "Ident", "StrLit"}
    /\ Innermost(cursor).v \in {"Edge", "Ident", "StrLit"}
    /\ mode(cursor) = ModeOfVariant(Innermost(cursor).v)

\* a token begun inside a quote, after an expression
C39_Witness ==
    /\ cursor.v = "Quote"
    /\ cursor.cursor.v = "Ident"
    /\ mode(cursor) = "Ident"
    /\ cursor.head # <<>>


\* ------------------------------------------------------------------------
\* C40

Higher == {N_collect, N_map, N_under}

\* the slot of the quote among the operands of prim on the stack st
QuoteSlot(prim, st) == IF prim = N_under THEN Len(st) - 1 ELSE Len(st)

\* the number of times prim evaluates its quote
RunCount(prim, st) ==
    IF prim = N_map THEN Len(st[Len(st) - 1].items) ELSE 1

\* the expressions between the braces of the captured quote q
BodyOf(q) == Innermost(q).head \o Innermost(q).tail

\* the shape of the position after j expressions of the body of q
RECURSIVE BodyKey(_, _)
BodyKey(q, j) ==
    IF q.v = "Quote"
    THEN ShapeQuote(Len(q.head), BodyKey(q.cursor, j), Len(q.tail))
    ELSE ShapeEdge(j, Len(q.head) + Len(q.tail) - j)

\* key is a Quote shape nested at the position of the captured quote q
RECURSIVE NestedAt(_, _)
NestedAt(key, q) ==
    /\ key.v = "Quote"
    /\ key.head = Len(q.head)
    /\ key.tail = Len(q.tail)
    /\ q.cursor.v = "Quote" => NestedAt(key.cursor, q.cursor)

\* the number of snapshots the step has added at the position key
Grown(key) ==
    (IF key \in DOMAIN trace' THEN Len(trace'[key]) ELSE 0) - Len(TraceAt(key))

\* the stack prim leaves on st when the quote among its operands is the
\* body of that quote as a program of its own, at its start
OnBodyAlone(prim, st) ==
    prim_arm([parent |-> None,
              stack |-> [st EXCEPT ![QuoteSlot(prim, st)] =
                           new_quote(initial(BodyOf(st[QuoteSlot(prim, st)].cursor)))]],
             <<>>, prim, 0).stack

\* C40: evaluating a captured quote (by collect, map or under) executes
\* exactly the expressions of the body of the quote, in order, and stops at
\* the end of the body: the stack left is the one the body leaves as a
\* program of its own, each position of the body is recorded once for every
\* run, and apart from the position after the primitive every shape
\* recorded is a Quote shape nested at the position of the quote, so no
\* expression after the quote in the enclosing program is executed.
C40_QuoteBodyOnly ==
    [][Applying(Higher) =>
          /\ vm'.stack = OnBodyAlone(Consumed.s, vm.stack)
          /\ \A j \in 0..Len(BodyOf(vm.stack[QuoteSlot(Consumed.s, vm.stack)].cursor)) :
                Grown(BodyKey(vm.stack[QuoteSlot(Consumed.s, vm.stack)].cursor, j))
                   = RunCount(Consumed.s, vm.stack)
          /\ Grown(shape(cursor')) = 1
          /\ \A key \in DOMAIN trace' :
                (Grown(key) > 0 /\ key # shape(cursor')) =>
                   NestedAt(key, vm.stack[QuoteSlot(Consumed.s, vm.stack)].cursor)]_vars

\* {dup inc} has run under one value, before the end of the program
C40_Witness ==
    /\ status = "done"
    /\ program = <<ExprNumLit(0), ExprNumLit(1), Q_twice, ExprNumLit(1),
                   ExprIdent(N_under)>>
    /\ vm.stack = <<new_num(0), new_num(1), new_num(1)>>
    /\ Len(TraceAt(ShapeQuote(2, ShapeEdge(2, 0), 2))) = 1

====
